---- MODULE Spec2Model ----
(***************************************************************************)
(* Model of the Maker of Hateno (src/src/hateno/maker.py): the run loop    *)
(* extract -> generate -> wait -> download -> delete with its two failure  *)
(* counters, the decoding of the `launch` option and the selection of the  *)
(* script to launch (Spec); of the Simulation object that resolves the     *)
(* settings of one simulation (src/manager/simulation.py, SimSpec); and of *)
(* the event listeners of the Maker (BusSpec).                             *)
(*                                                                         *)
(* Strings are sequences of one-character strings, Python lists are        *)
(* sequences, Python indices are 0-based integers (negative = from the     *)
(* end).  Simulations and job identifiers are positive integers.           *)
(***************************************************************************)
EXTENDS Integers, Sequences, FiniteSets, TLC

\* ------------------------------------------------------------------ bounds

\* number of simulations of the target list handed to run()
NumSims == 2
\* largest number of job identifiers printed by the launched script
MaxJobs == 2
\* largest number of scripts the generator creates for one skeleton
MaxScripts == 2
\* largest number of generate rounds explored in one run
MaxRounds == 2
\* largest number of close() calls made in a row
MaxCloses == 2
\* largest length of the launch options decoded, the examples apart
MaxLaunchLen == 4

\* --------------------------------------------------------- Python helpers

Max(a, b) == IF a >= b THEN a ELSE b

SetMax(S) == CHOOSE x \in S : \A y \in S : y <= x

Range(s) == {s[i] : i \in 1..Len(s)}

\* the sub-list of s (order kept) of the elements satisfying membership in S
RECURSIVE Filter(_, _)
Filter(s, S) ==
    IF s = <<>> THEN <<>>
    ELSE (IF Head(s) \in S THEN <<Head(s)>> ELSE <<>>) \o Filter(Tail(s), S)

\* lst[i] is defined in Python iff -len <= i < len
InIndexRange(lst, i) == i >= -Len(lst) /\ i < Len(lst)

\* lst[i] of Python, for an index in range
PyIndex(lst, i) == IF i >= 0 THEN lst[i + 1] ELSE lst[Len(lst) + i + 1]

\* --------------------------------------------------- launch option decoding

Digits == {"0", "1", "2", "3"}

DigitValue(c) == CASE c = "0" -> 0 [] c = "1" -> 1 [] c = "2" -> 2 [] c = "3" -> 3

RECURSIVE NatValue(_)
NatValue(s) ==
    IF s = <<>> THEN 0
    ELSE 10 * NatValue(SubSeq(s, 1, Len(s) - 1)) + DigitValue(s[Len(s)])

IsNat(s) == s /= <<>> /\ \A i \in 1..Len(s) : s[i] \in Digits

\* whether int(s) succeeds: an optional sign followed by digits
IsInt(s) == IsNat(s) \/ (s /= <<>> /\ s[1] = "-" /\ IsNat(Tail(s)))

\* string.intOrNone: the integer, or None (here <<>>) wrapped as <<n>>
intOrNone(s) ==
    IF ~IsInt(s) THEN <<>>
    ELSE IF s[1] = "-" THEN << -NatValue(Tail(s)) >> ELSE << NatValue(s) >>

\* positions of the ':' of s
Colons(s) == {i \in 1..Len(s) : s[i] = ":"}

\* s.rsplit(':', maxsplit = n): the list of pieces
RECURSIVE rsplit(_, _)
rsplit(s, n) ==
    IF n = 0 \/ Colons(s) = {} THEN <<s>>
    ELSE LET k == SetMax(Colons(s))
         IN  rsplit(SubSeq(s, 1, k - 1), n - 1) \o <<SubSeq(s, k + 1, Len(s))>>

\* ':'.join(pieces)
RECURSIVE join(_)
join(pieces) ==
    IF pieces = <<>> THEN <<>>
    ELSE IF Len(pieces) = 1 THEN pieces[1]
    ELSE pieces[1] \o <<":">> \o join(Tail(pieces))

\* whether parseScriptToLaunch returns (max() of an empty list raises)
ParseOk(launch_option) ==
    LET option_split == rsplit(launch_option, 2)
    IN  \E k \in 1..Len(option_split) : intOrNone(option_split[k]) = <<>>

parseScriptToLaunchPaddingLeft(launch_option) ==
    LET option_split == rsplit(launch_option, 2)
        option_split_num == [k \in 1..Len(option_split) |-> intOrNone(option_split[k])]
        cut == SetMax({k \in 1..Len(option_split) : option_split_num[k] = <<>>})
        given == [k \in 1..(Len(option_split) - cut) |-> option_split_num[cut + k][1]]
        coords == [k \in 1..(2 - Len(given)) |-> -1] \o given
    IN  [name |-> join(SubSeq(option_split, 1, cut)),
         skeleton |-> coords[1],
         script |-> coords[2]]

parseScriptToLaunch(launch_option) ==
    LET option_split == rsplit(launch_option, 2)
        option_split_num == [k \in 1..Len(option_split) |-> intOrNone(option_split[k])]
        cut == SetMax({k \in 1..Len(option_split) : option_split_num[k] = <<>>})
        given == [k \in 1..(Len(option_split) - cut) |-> option_split_num[cut + k][1]]
        coords == given \o [k \in 1..(2 - Len(given)) |-> -1]
    IN  [name |-> join(SubSeq(option_split, 1, cut)),
         skeleton |-> coords[1],
         script |-> coords[2]]

\* ------------------------------------------------------------ program inputs

\* the target list handed to run()
simulations == [i \in 1..NumSims |-> i]

\* the skeleton names of the recipe
subgroups_skeletons == << <<"a">>, <<"b">> >>
wholegroup_skeletons == << <<"a">> >>

\* the values of recipe['launch'] explored
LaunchOptions ==
    { <<"a", ":", "-", "1", ":", "1">>,
      <<"b", ":", "1">>,
      <<"b", ":", "-", "2">>,
      <<"c">>,
      <<"1", ":", "0">> }

\* the values of max_corrupted and max_failures explored (the defaults are -1 and 0)
Thresholds == {-1, 0, 1}

JobStates == {"waiting", "running", "succeed", "failed"}

\* the catalogue of events of the Maker
EventNames ==
    {"close-start", "close-end", "remote-open-start", "remote-open-end",
     "delete-scripts", "run-start", "run-end", "extract-start", "extract-end",
     "extract-progress", "generate-start", "generate-end", "wait-start",
     "wait-progress", "wait-end", "download-start", "download-progress",
     "download-end", "addition-start", "addition-progress", "addition-end"}

\* ------------------------------------------- values and tags of the settings

SetMin(S) == CHOOSE x \in S : \A y \in S : x <= y

\* a Python value: a str (its characters), an int, or a list [num] that is the
\* object number `id` (0 for the immutable values)
StrValue(text) == [type |-> "str", text |-> text, num |-> 0, id |-> 0]
IntValue(num) == [type |-> "int", text |-> <<>>, num |-> num, id |-> 0]
ListValue(num, id) == [type |-> "list", text |-> <<>>, num |-> num, id |-> id]

DigitChar(d) == CASE d = 0 -> "0" [] d = 1 -> "1" [] d = 2 -> "2" [] d = 3 -> "3"
                  [] d = 4 -> "4" [] d = 5 -> "5" [] d = 6 -> "6" [] d = 7 -> "7"
                  [] d = 8 -> "8" [] d = 9 -> "9"

\* str(n) of a natural number
RECURSIVE NatToStr(_)
NatToStr(n) ==
    IF n < 10 THEN <<DigitChar(n)>> ELSE NatToStr(n \div 10) \o <<DigitChar(n % 10)>>

\* str(value)
str(value) ==
    CASE value.type = "str" -> value.text
      [] value.type = "int" -> NatToStr(value.num)
      [] value.type = "list" -> <<"[">> \o NatToStr(value.num) \o <<"]">>

\* copy.deepcopy(value) when `next_id` is the number of the next object created
deepcopyAliasing(value, next_id) == value

deepcopy(value, next_id) ==
    IF value.type = "list" THEN ListValue(value.num, next_id) ELSE value

\* the categories of the tags
setting_category == <<"s", "e", "t", "t", "i", "n", "g">>
globalsetting_category == <<"g", "l", "o", "b", "a", "l">> \o setting_category

\* the text of the tag {category:name}
Tag(category, name) == <<"{">> \o category \o <<":">> \o name \o <<"}">>

IsPrefixAt(prefix, s, i) ==
    /\ i + Len(prefix) - 1 <= Len(s)
    /\ SubSeq(s, i, i + Len(prefix) - 1) = prefix

NoTag == [found |-> FALSE, category |-> <<>>, name |-> <<>>, start |-> 0, end |-> 0]

\* _setting_tag_regex matched at position i of s:
\* \{(?P<category>(?:global)?setting):(?P<name>[^}]+)\}
TagAt(s, i) ==
    LET category == IF IsPrefixAt(<<"{">> \o globalsetting_category \o <<":">>, s, i) THEN globalsetting_category
                    ELSE IF IsPrefixAt(<<"{">> \o setting_category \o <<":">>, s, i) THEN setting_category
                    ELSE <<>>
        first == i + Len(category) + 2
        closings == {k \in first..Len(s) : s[k] = "}"}
    IN  IF category = <<>> \/ closings = {} THEN NoTag
        ELSE IF SetMin(closings) = first THEN NoTag
        ELSE [found |-> TRUE, category |-> category,
              name |-> SubSeq(s, first, SetMin(closings) - 1),
              start |-> i, end |-> SetMin(closings)]

\* _setting_tag_regex.fullmatch(s)
fullmatch(s) ==
    LET match == TagAt(s, 1)
    IN  IF match.found /\ match.end = Len(s) THEN match ELSE NoTag

\* a dict built from (name, value) pairs: the last pair of a name wins
HasKey(pairs, name) == \E k \in 1..Len(pairs) : pairs[k].name = name

GetKey(pairs, name) ==
    pairs[SetMax({k \in 1..Len(pairs) : pairs[k].name = name})].value

\* settings[category]
Category(mappings, category) ==
    IF category = globalsetting_category THEN mappings.globalsetting ELSE mappings.setting

\* parseString(): the text built by the loop over finditer(s), from position i on
RECURSIVE SubstituteDroppingUnknownTags(_, _, _)
SubstituteDroppingUnknownTags(s, i, mappings) ==
    IF i > Len(s) THEN <<>>
    ELSE LET match == TagAt(s, i)
         IN  IF ~match.found
             THEN <<s[i]>> \o SubstituteDroppingUnknownTags(s, i + 1, mappings)
             ELSE (IF HasKey(Category(mappings, match.category), match.name)
                   THEN str(GetKey(Category(mappings, match.category), match.name))
                   ELSE <<>>)
                  \o SubstituteDroppingUnknownTags(s, match.end + 1, mappings)

RECURSIVE Substitute(_, _, _)
Substitute(s, i, mappings) ==
    IF i > Len(s) THEN <<>>
    ELSE LET match == TagAt(s, i)
         IN  IF ~match.found
             THEN <<s[i]>> \o Substitute(s, i + 1, mappings)
             ELSE (IF HasKey(Category(mappings, match.category), match.name)
                   THEN str(GetKey(Category(mappings, match.category), match.name))
                   ELSE SubSeq(s, i, match.end))
                  \o Substitute(s, match.end + 1, mappings)

\* ------------------------------------------------ the Simulation object

\* depth of nested calls at which Python raises RecursionError
RecursionLimit == 6

\* the outcome of a call on the Simulation object o: the object afterwards, the
\* value returned or the exception raised, and the number of recursive calls
\* of parseString made by the originating call
Return(o, ret) == [sim |-> o, ret |-> ret, err |-> "none", steps |-> 0]
Raise(o, err) == [sim |-> o, ret |-> <<>>, err |-> err, steps |-> 0]

\* `value` is computed once and Rest goes on with it
Once(value, Rest(_)) == CHOOSE after \in {Rest(v) : v \in {value}} : TRUE

\* the call `outcome` is made once and Rest goes on with what it returned; an
\* exception it raises propagates to the caller
Then(outcome, Rest(_)) ==
    Once(outcome, LAMBDA got : IF got.err /= "none" THEN got ELSE Rest(got))

\* the numbers of the objects a list of (name, value) members refers to
IdsOf(members) == {members[k].value.id : k \in 1..Len(members)}

DefaultsOf(members) == [k \in 1..Len(members) |-> [value |-> members[k].default]]

\* the number of an object that does not exist yet: greater than the number of
\* every object the folder, the user settings or the Simulation holds
FreshId(o) ==
    1 + SetMax({0}
               \cup IdsOf(DefaultsOf(o.folder.globalsettings))
               \cup UNION {IdsOf(DefaultsOf(o.folder.settings[k].settings)) :
                              k \in 1..Len(o.folder.settings)}
               \cup IdsOf(o.user_settings.globals)
               \cup UNION {IdsOf(o.user_settings.settings[k].settings) :
                              k \in 1..Len(o.user_settings.settings)}
               \cup IdsOf(o.raw_globalsettings)
               \cup UNION {IdsOf(o.raw_settings[k]) : k \in 1..Len(o.raw_settings)})

\* Simulation.__init__; _parser_recursion_stack is only appended to, cleared and
\* searched: it is the set of the strings it holds
NewSimulation(folder, user_settings) ==
    [folder |-> folder,
     user_settings |-> user_settings,
     raw_globalsettings |-> <<>>,
     raw_settings |-> <<>>,
     parser_recursion_stack |-> {},
     expanded |-> <<>>]

\* generateSettings(): default_settings of a declaration; a declaration without
\* 'exclude' has exclude = FALSE here, one without 'pattern' has pattern = <<>>
DefaultSettings(settings_set, default_pattern) ==
    [k \in 1..Len(settings_set.settings) |->
        [name |-> settings_set.settings[k].name,
         value |-> settings_set.settings[k].default,
         exclude |-> settings_set.settings[k].exclude,
         pattern |-> IF settings_set.settings[k].pattern /= <<>>
                     THEN settings_set.settings[k].pattern
                     ELSE default_pattern]]

\* generateSettings(): values_sets of a declaration, from user value-set k on
RECURSIVE ValuesSetsFrom(_, _, _)
ValuesSetsFrom(settings_set, user_settings, k) ==
    IF k > Len(user_settings.settings) THEN <<>>
    ELSE (IF user_settings.settings[k].set = settings_set.set
          THEN <<user_settings.settings[k].settings>>
          ELSE <<>>)
         \o ValuesSetsFrom(settings_set, user_settings, k + 1)

ValuesSets(settings_set, user_settings) == ValuesSetsFrom(settings_set, user_settings, 1)

\* generateSettings(): set_to_add, made from the objects `base` for a values_set
SetToAdd(base, values_set) ==
    [k \in 1..Len(base) |->
        IF HasKey(values_set, base[k].name)
        THEN [base[k] EXCEPT !.value = GetKey(values_set, base[k].name)]
        ELSE base[k]]

\* copy.deepcopy(default_settings), the next object created being next_id
CopyOfDefaults(default_settings, next_id) ==
    [k \in 1..Len(default_settings) |->
        [default_settings[k] EXCEPT !.value = deepcopy(@, next_id + k - 1)]]

\* generateSettings(): the instances appended for one declaration
RECURSIVE InstancesSharingDefaults(_, _, _)
InstancesSharingDefaults(default_settings, values_sets, next_id) ==
    IF values_sets = <<>> THEN <<>>
    ELSE LET set_to_add == SetToAdd(default_settings, Head(values_sets))
         IN  <<set_to_add>>
             \o InstancesSharingDefaults(set_to_add, Tail(values_sets), next_id)

RECURSIVE Instances(_, _, _)
Instances(default_settings, values_sets, next_id) ==
    IF values_sets = <<>> THEN <<>>
    ELSE <<SetToAdd(CopyOfDefaults(default_settings, next_id), Head(values_sets))>>
         \o Instances(default_settings, Tail(values_sets),
                      next_id + Len(default_settings))

\* generateSettings(): what one declaration appends to _raw_settings
ExpandSetAlways(settings_set, default_pattern, user_settings, next_id) ==
    LET values_sets == ValuesSets(settings_set, user_settings)
    IN  IF values_sets /= <<>>
        THEN Instances(DefaultSettings(settings_set, default_pattern), values_sets, next_id)
        ELSE <<DefaultSettings(settings_set, default_pattern)>>

ExpandSet(settings_set, default_pattern, user_settings, next_id) ==
    LET values_sets == ValuesSets(settings_set, user_settings)
    IN  IF values_sets /= <<>>
        THEN Instances(DefaultSettings(settings_set, default_pattern), values_sets, next_id)
        ELSE IF settings_set.required THEN <<DefaultSettings(settings_set, default_pattern)>>
        ELSE <<>>

\* the objects ExpandSet creates
Created(settings_set, user_settings) ==
    Len(ValuesSets(settings_set, user_settings)) * Len(settings_set.settings)

\* generateSettings(): _raw_settings before parseSettings, from declaration k on
RECURSIVE Expand(_, _, _, _)
Expand(folder, user_settings, k, next_id) ==
    IF k > Len(folder.settings) THEN <<>>
    ELSE ExpandSet(folder.settings[k], folder.setting_pattern, user_settings, next_id)
         \o Expand(folder, user_settings, k + 1,
                   next_id + Created(folder.settings[k], user_settings))

\* generateGlobalSettings(): _raw_globalsettings before parseGlobalSettings
ExpandGlobals(folder, user_settings) ==
    [k \in 1..Len(folder.globalsettings) |->
        [name |-> folder.globalsettings[k].name,
         value |-> IF HasKey(user_settings.globals, folder.globalsettings[k].name)
                   THEN GetKey(user_settings.globals, folder.globalsettings[k].name)
                   ELSE folder.globalsettings[k].default]]

\* the list concatenating the lists of `lists`
RECURSIVE Flatten(_)
Flatten(lists) == IF lists = <<>> THEN <<>> ELSE Head(lists) \o Flatten(Tail(lists))

\* the (name, value) pairs of the members of a list that satisfy keep
RECURSIVE Pairs(_, _)
Pairs(members, excluded) ==
    IF members = <<>> THEN <<>>
    ELSE (IF excluded /\ Head(members).exclude THEN <<>>
          ELSE <<[name |-> Head(members).name, value |-> Head(members).value]>>)
         \o Pairs(Tail(members), excluded)

\* the property `settings` computed from _raw_settings
settingsWithExcluded(raw_settings) ==
    [k \in 1..Len(raw_settings) |-> Pairs(raw_settings[k], FALSE)]

settings(raw_settings) ==
    [k \in 1..Len(raw_settings) |-> Pairs(raw_settings[k], TRUE)]

RECURSIVE ParseString(_, _, _)
RECURSIVE generateSettings(_, _)
RECURSIVE generateGlobalSettings(_, _)
RECURSIVE parseSettingsFrom(_, _, _, _)
RECURSIVE parseGlobalSettingsFrom(_, _, _)

\* the property _settings
rawSettings(o, depth) ==
    IF o.raw_settings = <<>> THEN generateSettings(o, depth)
    ELSE Return(o, o.raw_settings)

\* the property _globalsettings
rawGlobalSettings(o, depth) ==
    IF o.raw_globalsettings = <<>> THEN generateGlobalSettings(o, depth)
    ELSE Return(o, o.raw_globalsettings)

\* the property reduced_settings
reduced_settings(o, depth) ==
    Then(rawSettings(o, depth), LAMBDA got :
        IF got.sim.raw_settings = <<>> THEN Raise(got.sim, "TypeError")
        ELSE Return(got.sim, Flatten(settings(got.sim.raw_settings))))

\* the property reduced_globalsettings
reduced_globalsettings(o, depth) ==
    Then(rawGlobalSettings(o, depth), LAMBDA got :
        Return(got.sim, Pairs(got.sim.raw_globalsettings, FALSE)))

\* parseString(): what happens once `parsed` is built and s is pushed
AfterPassKeepingStack(pushed, parsed, depth) ==
    IF parsed \notin pushed.parser_recursion_stack
    THEN [ParseString(pushed, StrValue(parsed), depth + 1) EXCEPT !.steps = @ + 1]
    ELSE Return(pushed, StrValue(parsed))

AfterPassOnce(pushed, parsed, depth) ==
    Return([pushed EXCEPT !.parser_recursion_stack = {}], StrValue(parsed))

AfterPass(pushed, parsed, depth) ==
    IF parsed \notin pushed.parser_recursion_stack
    THEN [ParseString(pushed, StrValue(parsed), depth + 1) EXCEPT !.steps = @ + 1]
    ELSE Return([pushed EXCEPT !.parser_recursion_stack = {}], StrValue(parsed))

\* parseString(): the value returned when the whole string is the tag `match`
WholeTagAsText(o, s, mappings, match) ==
    IF HasKey(Category(mappings, match.category), match.name)
    THEN Return(o, StrValue(str(GetKey(Category(mappings, match.category), match.name))))
    ELSE Return(o, s)

WholeTag(o, s, mappings, match) ==
    IF HasKey(Category(mappings, match.category), match.name)
    THEN LET value == GetKey(Category(mappings, match.category), match.name)
         IN  Return(o, deepcopy(value, FreshId(o)))
    ELSE Return(o, s)

ParseString(o, s, depth) ==
    IF depth > RecursionLimit THEN Raise(o, "RecursionError")
    ELSE IF s.type /= "str" THEN Return(o, s)
    ELSE Then(reduced_settings(o, depth + 1), LAMBDA first :
         Then(reduced_globalsettings(first.sim, depth + 1), LAMBDA second :
         LET mappings == [setting |-> first.ret, globalsetting |-> second.ret]
             match == fullmatch(s.text)
             pushed == [second.sim EXCEPT !.parser_recursion_stack = @ \cup {s.text}]
         IN  IF match.found
             THEN WholeTag(second.sim, s, mappings, match)
             ELSE Once(Substitute(s.text, 1, mappings), LAMBDA parsed :
                  AfterPass(pushed, parsed, depth))))

\* parseSettings(): the loop, from member j of instance i on
parseSettingsFrom(o, i, j, depth) ==
    IF i > Len(o.raw_settings) THEN Return(o, <<>>)
    ELSE IF j > Len(o.raw_settings[i]) THEN parseSettingsFrom(o, i + 1, 1, depth)
    ELSE Then(ParseString(o, o.raw_settings[i][j].value, depth), LAMBDA got :
         Once([got.sim EXCEPT !.raw_settings[i][j].value = got.ret], LAMBDA parsed :
         parseSettingsFrom(parsed, i, j + 1, depth)))

\* parseSettings()
parseSettings(o, depth) ==
    Then(rawSettings(o, depth), LAMBDA got : parseSettingsFrom(got.sim, 1, 1, depth))

\* parseGlobalSettings(): the loop, from global setting k on
parseGlobalSettingsFromTheLast(o, k, depth) ==
    IF k > Len(o.raw_globalsettings) THEN Return(o, <<>>)
    ELSE Then(ParseString(o, o.raw_globalsettings[Len(o.raw_globalsettings) + 1 - k].value, depth),
              LAMBDA got :
         Once([got.sim EXCEPT !.raw_globalsettings[Len(o.raw_globalsettings) + 1 - k].value = got.ret],
              LAMBDA parsed :
         parseGlobalSettingsFrom(parsed, k + 1, depth)))

parseGlobalSettingsFrom(o, k, depth) ==
    IF k > Len(o.raw_globalsettings) THEN Return(o, <<>>)
    ELSE Then(ParseString(o, o.raw_globalsettings[k].value, depth), LAMBDA got :
         Once([got.sim EXCEPT !.raw_globalsettings[k].value = got.ret], LAMBDA parsed :
         parseGlobalSettingsFrom(parsed, k + 1, depth)))

\* parseGlobalSettings()
parseGlobalSettings(o, depth) ==
    Then(rawGlobalSettings(o, depth), LAMBDA got : parseGlobalSettingsFrom(got.sim, 1, depth))

generateSettings(o, depth) ==
    IF depth > RecursionLimit THEN Raise(o, "RecursionError")
    ELSE Once(Expand(o.folder, o.user_settings, 1, FreshId(o)), LAMBDA raw :
         Once([o EXCEPT !.raw_settings = raw, !.expanded = raw], LAMBDA generated :
         parseSettings(generated, depth + 1)))

generateGlobalSettings(o, depth) ==
    IF depth > RecursionLimit THEN Raise(o, "RecursionError")
    ELSE Once([o EXCEPT !.raw_globalsettings = ExpandGlobals(o.folder, o.user_settings)],
              LAMBDA generated : parseGlobalSettings(generated, depth + 1))

\* parseString(s) called on the object
parseString(o, s) == ParseString(o, s, 0)

\* str.format(name = ..., value = ...) of a pattern, from position i on
RECURSIVE format(_, _, _, _)
format(pattern, i, name, value) ==
    IF i > Len(pattern) THEN <<>>
    ELSE IF IsPrefixAt(<<"{", "n", "a", "m", "e", "}">>, pattern, i)
         THEN name \o format(pattern, i + 6, name, value)
    ELSE IF IsPrefixAt(<<"{", "v", "a", "l", "u", "e", "}">>, pattern, i)
         THEN str(value) \o format(pattern, i + 7, name, value)
    ELSE <<pattern[i]>> \o format(pattern, i + 1, name, value)

\* the property settings_as_strings computed from _raw_settings
settings_as_stringsOfTheView(raw_settings) ==
    [k \in 1..Len(raw_settings) |->
        [j \in 1..Len(SelectSeq(raw_settings[k], LAMBDA m : ~m.exclude)) |->
            format(SelectSeq(raw_settings[k], LAMBDA m : ~m.exclude)[j].pattern, 1,
                   SelectSeq(raw_settings[k], LAMBDA m : ~m.exclude)[j].name,
                   SelectSeq(raw_settings[k], LAMBDA m : ~m.exclude)[j].value)]]

settings_as_strings(raw_settings) ==
    [k \in 1..Len(raw_settings) |->
        [j \in 1..Len(raw_settings[k]) |->
            format(raw_settings[k][j].pattern, 1,
                   raw_settings[k][j].name, raw_settings[k][j].value)]]

\* ' '.join(words)
RECURSIVE joinWords(_)
joinWords(words) ==
    IF words = <<>> THEN <<>>
    ELSE IF Len(words) = 1 THEN words[1]
    ELSE words[1] \o <<" ">> \o joinWords(Tail(words))

\* the property command_line
command_line(o, depth) ==
    Then(rawSettings(o, depth), LAMBDA got :
        Return(got.sim,
               joinWords(<<got.sim.folder.exec>>
                         \o Flatten(settings_as_strings(got.sim.raw_settings)))))

\* simulation[key]
getitem(o, key) ==
    Then(reduced_globalsettings(o, 0), LAMBDA got :
        IF HasKey(got.ret, key) THEN Return(got.sim, GetKey(got.ret, key))
        ELSE Raise(got.sim, "KeyError"))

\* simulation[key] = value; the first global setting of that name is written
setitemResolved(o, key, value) ==
    Then(rawGlobalSettings(o, 0), LAMBDA got :
        LET named == {k \in 1..Len(got.sim.raw_globalsettings) :
                         got.sim.raw_globalsettings[k].name = key}
        IN  IF named = {} THEN Raise(got.sim, "KeyError")
            ELSE Then(ParseString(got.sim, value, 0), LAMBDA parsed :
                 Return([parsed.sim EXCEPT !.raw_globalsettings[SetMin(named)].value =
                                              parsed.ret],
                        <<>>)))

setitem(o, key, value) ==
    Then(rawGlobalSettings(o, 0), LAMBDA got :
        LET named == {k \in 1..Len(got.sim.raw_globalsettings) :
                         got.sim.raw_globalsettings[k].name = key}
        IN  IF named = {} THEN Raise(got.sim, "KeyError")
            ELSE Return([got.sim EXCEPT !.raw_globalsettings[SetMin(named)].value = value],
                        <<>>))

\* the property settings
settings_property(o, depth) ==
    Then(rawSettings(o, depth), LAMBDA got : Return(got.sim, settings(got.sim.raw_settings)))

\* ---------------------------------------- the simulations that are explored

Declared(name, default) ==
    [name |-> name, default |-> default, exclude |-> FALSE, pattern |-> <<>>]

Excluded(name, default) ==
    [name |-> name, default |-> default, exclude |-> TRUE, pattern |-> <<"-", "{", "v", "a", "l", "u", "e", "}">>]

Folder(globalsettings, declarations) ==
    [exec |-> <<"r", "u", "n">>,
     setting_pattern |-> <<"{", "n", "a", "m", "e", "}", "=", "{", "v", "a", "l", "u", "e", "}">>,
     globalsettings |-> globalsettings,
     settings |-> declarations]

Pair(name, value) == [name |-> name, value |-> value]

SettingTag(name) == Tag(setting_category, name)
GlobalTag(name) == Tag(globalsetting_category, name)

\* global settings h = 5 and l = [1]; a required set s (a = 1, b = 2) and an
\* optional set t (x = 2, y = "n={setting:x}cm", z excluded)
PlainFolder ==
    Folder(<< [name |-> <<"h">>, default |-> IntValue(5)],
              [name |-> <<"l">>, default |-> ListValue(1, 1)] >>,
           << [set |-> "s", required |-> TRUE,
               settings |-> << Declared(<<"a">>, IntValue(1)), Declared(<<"b">>, IntValue(2)) >>],
              [set |-> "t", required |-> FALSE,
               settings |-> << Declared(<<"x">>, IntValue(2)),
                               Declared(<<"y">>, StrValue(<<"n", "=">> \o SettingTag(<<"x">>) \o <<"c", "m">>)),
                               Excluded(<<"z">>, StrValue(GlobalTag(<<"l">>))) >>] >>)

\* a global setting that refers to a setting that refers to a global setting
CrossFolder ==
    Folder(<< [name |-> <<"g">>, default |-> StrValue(SettingTag(<<"x">>))],
              [name |-> <<"h">>, default |-> IntValue(5)] >>,
           << [set |-> "s", required |-> TRUE,
               settings |-> << Declared(<<"x">>, StrValue(GlobalTag(<<"h">>))) >>] >>)

\* settings that refer to each other: a = {setting:b}, b = {setting:a},
\* c = {setting:c}, d = {setting:a}{setting:b}
CycleFolder ==
    Folder(<< [name |-> <<"h">>, default |-> IntValue(5)] >>,
           << [set |-> "s", required |-> TRUE,
               settings |-> << Declared(<<"a">>, StrValue(SettingTag(<<"b">>))),
                               Declared(<<"b">>, StrValue(SettingTag(<<"a">>))),
                               Declared(<<"c">>, StrValue(SettingTag(<<"c">>))),
                               Declared(<<"d">>, StrValue(SettingTag(<<"a">>) \o SettingTag(<<"b">>))) >>] >>)

\* a setting that refers to itself inside a text: a = "x{setting:a}"
TextCycleFolder ==
    Folder(<< [name |-> <<"h">>, default |-> IntValue(5)] >>,
           << [set |-> "s", required |-> TRUE,
               settings |-> << Declared(<<"a">>, StrValue(<<"x">> \o SettingTag(<<"a">>))) >>] >>)

\* an empty setting e, v = {setting:w} and w = {setting:e}
EmptyValueFolder ==
    Folder(<< [name |-> <<"h">>, default |-> IntValue(5)] >>,
           << [set |-> "s", required |-> TRUE,
               settings |-> << Declared(<<"e">>, StrValue(<<>>)),
                               Declared(<<"v">>, StrValue(SettingTag(<<"w">>))),
                               Declared(<<"w">>, StrValue(SettingTag(<<"e">>))) >>] >>)

\* an optional set only
OptionalFolder ==
    Folder(<< [name |-> <<"h">>, default |-> IntValue(5)] >>,
           << [set |-> "t", required |-> FALSE,
               settings |-> << Declared(<<"x">>, IntValue(2)) >>] >>)

\* global settings that refer to each other: g = {globalsetting:k},
\* k = "n={globalsetting:h}", m = {globalsetting:k} and h = 5
ChainFolder ==
    Folder(<< [name |-> <<"g">>, default |-> StrValue(GlobalTag(<<"k">>))],
              [name |-> <<"k">>, default |-> StrValue(<<"n", "=">> \o GlobalTag(<<"h">>))],
              [name |-> <<"m">>, default |-> StrValue(GlobalTag(<<"k">>))],
              [name |-> <<"h">>, default |-> IntValue(5)] >>,
           << [set |-> "s", required |-> TRUE,
               settings |-> << Declared(<<"a">>, IntValue(1)) >>] >>)

\* no global setting
NoGlobalsFolder ==
    Folder(<<>>,
           << [set |-> "s", required |-> TRUE,
               settings |-> << Declared(<<"a">>, IntValue(1)) >>] >>)

\* the user settings that are explored
NoUserSettings == [globals |-> <<>>, settings |-> <<>>]

TwoValuesSets ==
    [globals |-> << Pair(<<"h">>, IntValue(7)) >>,
     settings |-> << [set |-> "s", settings |-> << Pair(<<"a">>, IntValue(9)) >>],
                     [set |-> "t", settings |-> << Pair(<<"x">>, IntValue(3)), Pair(<<"q">>, IntValue(4)) >>],
                     [set |-> "s", settings |-> << Pair(<<"b">>, IntValue(9)) >>] >>]

OneGlobal == [globals |-> << Pair(<<"h">>, IntValue(7)) >>, settings |-> <<>>]

TemplatedValuesSet ==
    [globals |-> << Pair(<<"l">>, ListValue(2, 2)) >>,
     settings |-> << [set |-> "t", settings |-> << Pair(<<"x">>, StrValue(SettingTag(<<"a">>))) >>] >>]

Simulations ==
    { NewSimulation(PlainFolder, NoUserSettings),
      NewSimulation(PlainFolder, TwoValuesSets),
      NewSimulation(PlainFolder, TemplatedValuesSet),
      NewSimulation(CrossFolder, NoUserSettings),
      NewSimulation(CycleFolder, NoUserSettings),
      NewSimulation(TextCycleFolder, NoUserSettings),
      NewSimulation(EmptyValueFolder, NoUserSettings),
      NewSimulation(OptionalFolder, NoUserSettings) }

\* the arguments of parseString that are explored
Strings ==
    { StrValue(<<"n", "=">> \o SettingTag(<<"x">>) \o <<"c", "m">>),
      StrValue(SettingTag(<<"x">>)),
      StrValue(SettingTag(<<"a">>)),
      StrValue(SettingTag(<<"q">>)),
      StrValue(GlobalTag(<<"l">>)),
      StrValue(GlobalTag(<<"h">>) \o <<"+">> \o SettingTag(<<"q">>) \o <<"+">> \o SettingTag(<<"a">>)),
      StrValue(SettingTag(<<"e">>) \o SettingTag(<<"q">>)),
      StrValue(SettingTag(<<"v">>) \o SettingTag(<<"q">>)),
      StrValue(<<"{", "}", "c", "m">>),
      StrValue(SettingTag(<<"z">>)),
      StrValue(<<"z", "=">> \o SettingTag(<<"z">>)),
      IntValue(3),
      ListValue(4, 9) }

\* ------------------------------------------------------------------- state

VARIABLES
    pc,                   \* where the Maker is in run(): idle, loop, generate, waitstart,
                          \* wait, download, delete, runend, done (returned), error (raised)
    max_corrupted,        \* self._max_corrupted
    max_failures,         \* self._max_failures
    corruptions_counter,  \* self._corruptions_counter
    failures_counter,     \* self._failures_counter
    known,                \* the simulations the Manager holds
    recipe,               \* generator_recipe: its launch option and its basedir
    script_coords,        \* run(): the decoded launch option
    unknown_simulations,  \* run(): the result of the last extractSimulations
    jobs_ids,             \* the job identifiers waitForJobs waits for (<<>> once it returned)
    success,              \* run(): the result of waitForJobs, then of downloadSimulations
    jobs,                 \* self._jobs_manager: registered job -> state
    previous_states,      \* waitForJobs(): {} or {the partition of the previous poll};
                          \* {} outside waitForJobs
    remote_open,          \* whether self._remote_folder_instance is set
    remote_dirs,          \* the directories sent to the remote folder and not deleted
    generated_scripts,    \* generateSimulations(): the scripts of the Generator, per skeleton
                          \* (<<>> once waitForJobs has started)
    remote_executed,      \* generateSimulations(): the script executed remotely, as <<script>>
                          \* (<<>> once waitForJobs has started)
    published,            \* the events triggered by the last step, with their arguments
    returned,             \* the value returned by run()
    error,                \* the exception raised by run()
    extracted,            \* the results of the extractSimulations calls of this run
    outcomes,             \* per finished round: whether a job failed, whether a simulation was rejected
    run_end_count,        \* number of 'run-end' events triggered in this run
    remote_opened,        \* number of RemoteFolder.open() calls
    remote_closed,        \* number of RemoteFolder.close() calls
    closed_in_a_row,      \* number of close() calls since the last call of another method
    events_callbacks,     \* self._events_callbacks: event -> (function name -> function)
    listened,             \* the last addEventListener or _triggerEvent call and its outcome
    simulation,           \* a Simulation object: its folder settings, its user settings
                          \* and its attributes
    called,               \* the last call made on the Simulation object and its outcome
    launch_given,         \* a value of the `launch` option of a recipe
    launch_decoded,       \* what parseScriptToLaunch returned or raised for it
    targets_type,         \* the type of the entries of the list given to run(): dict
                          \* or Simulation
    folders,              \* simulation -> the 'folder' its entry of that list holds
    received,             \* per finished round, the remote paths receiveDir was asked
                          \* for, in the order of the unknown simulations
    previous_run          \* how the run() before this one ended: "none" if there was
                          \* none, "exceeded" if a counter was above its threshold

makervars == <<pc, max_corrupted, max_failures, corruptions_counter, failures_counter,
          known, recipe, script_coords, unknown_simulations, jobs_ids, success,
          jobs, previous_states, remote_open, remote_dirs, generated_scripts,
          remote_executed, published, returned, error, extracted, outcomes,
          run_end_count, remote_opened, remote_closed, closed_in_a_row>>

\* the event listeners of the Maker
busvars == <<events_callbacks, listened>>

\* the Simulation object
simvars == <<simulation, called>>

\* the decoding of a launch option
parsevars == <<launch_given, launch_decoded>>

\* the list of simulations given to run() and what is downloaded for it
targetvars == <<targets_type, folders, received>>

vars == <<makervars, busvars, simvars, parsevars, targetvars, previous_run>>

\* an event triggered with its arguments
Event(name, args) == [name |-> name, args |-> args]

\* a local variable of run() that is not assigned yet
Unbound == <<0>>

NoCoords == [name |-> <<>>, skeleton |-> -1, script |-> -1]
NoError == [type |-> "none", script_coords |-> NoCoords]

\* the folder of the remote folder in which the jobs write the output of a
\* simulation: the 'folder' of the simulation given to run()
RemoteOutput(s) == [at |-> "remote", dir |-> s]

\* a directory made by mkdtemp, as the value of a 'folder'
LocalDir(d) == [at |-> "local", dir |-> d]

\* Simulation.ensureType(simulation, folder): whether the object returned is
\* the one given
ensureTypeReturnsTheSame(type) == type = "Simulation"

\* the types of the entries of a list of simulations
TargetsTypes == {"dict", "Simulation"}

\* run() was not called before
NoRun == "none"

\* n copies of the event e
Repeat(e, n) == [i \in 1..n |-> e]

\* a Maker on which run() was not called, and the list of simulations it will be
\* given, its entries of one of these types
InitWith(types) ==
    /\ pc = "idle"
    /\ max_corrupted \in Thresholds
    /\ max_failures \in Thresholds
    /\ corruptions_counter = 0
    /\ failures_counter = 0
    /\ known \in SUBSET Range(simulations)
    /\ recipe = [launch |-> <<>>, basedir |-> 0]
    /\ script_coords = NoCoords
    /\ unknown_simulations = Unbound
    /\ jobs_ids = <<>>
    /\ success = TRUE
    /\ jobs = <<>>
    /\ previous_states = {}
    /\ remote_open = FALSE
    /\ remote_dirs = {}
    /\ generated_scripts = <<>>
    /\ remote_executed = <<>>
    /\ published = <<>>
    /\ returned = <<>>
    /\ error = NoError
    /\ extracted = <<>>
    /\ outcomes = <<>>
    /\ run_end_count = 0
    /\ remote_opened = 0
    /\ remote_closed = 0
    /\ closed_in_a_row = 0
    /\ events_callbacks = <<>>
    /\ listened = <<>>
    /\ simulation = <<>>
    /\ called = <<>>
    /\ launch_given = <<>>
    /\ launch_decoded = <<>>
    /\ targets_type \in types
    /\ folders = [s \in Range(simulations) |-> RemoteOutput(s)]
    /\ received = <<>>
    /\ previous_run = NoRun

Init == InitWith({"dict"})

\* ------------------------------------------------- collaborators of the Maker

\* Manager.batchExtract: the simulations of the list the Manager does not hold
batchExtract(sims, held) == Filter(sims, Range(sims) \ held)

\* Manager.batchAdd: the simulations of the batch that are not in `added`
batchAdd(batch, added) == Filter(batch, Range(batch) \ added)

\* RemoteFolder.sendDir without destination: the remote directory created, named
\* after the local one
sendDir(local_path) == local_path

\* Generator.generate: for each of the nskeletons skeletons, the list of its
\* nscripts scripts
generate(nskeletons, nscripts) ==
    [k \in 1..nskeletons |->
        [j \in 1..nscripts |-> [skeleton |-> k - 1, script |-> j - 1]]]

\* tempfile.mkdtemp: a directory that does not exist yet, `made` existing already
mkdtemp(made) == made + 1

\* JobsManager.add
AddJobs(registered, ids) ==
    [i \in (DOMAIN registered) \cup Range(ids) |->
        IF i \in DOMAIN registered THEN registered[i] ELSE "waiting"]

\* JobsManager.getJobsWithStates([state])
getJobsWithStates(registered, state) == {i \in DOMAIN registered : registered[i] = state}

StateRank(state) == CASE state = "waiting" -> 0 [] state = "running" -> 1 [] OTHER -> 2

\* what the states file can say of a job that was seen in state `old`
CanBecome(old, new) == new = old \/ StateRank(new) > StateRank(old)

\* ------------------------------------------------------- pieces of the Maker

\* the condition of the while loop of run()
LoopConditionStrict(c, f) ==
    /\ (max_corrupted < 0 \/ c < max_corrupted)
    /\ (max_failures < 0 \/ f < max_failures)

LoopConditionClamped(c, f) ==
    /\ c <= Max(max_corrupted, 0)
    /\ f <= Max(max_failures, 0)

LoopCondition(c, f) ==
    /\ (max_corrupted < 0 \/ c <= max_corrupted)
    /\ (max_failures < 0 \/ f <= max_failures)

RECURSIVE PositionsFrom(_, _, _)
PositionsFrom(names, name, k) ==
    IF names = <<>> THEN <<>>
    ELSE (IF Head(names) = name THEN <<k>> ELSE <<>>)
         \o PositionsFrom(Tail(names), name, k + 1)

\* generateSimulations(): possible_skeletons_to_launch
possible_skeletons_to_launchAmongSubgroups(name) ==
    PositionsFrom(subgroups_skeletons, name, 0)

possible_skeletons_to_launch(name) ==
    PositionsFrom(subgroups_skeletons \o wholegroup_skeletons, name, 0)

\* generateSimulations(): script_to_launch as <<script>>, or <<>> on IndexError
SelectScriptOrLast(generated, possible, coords) ==
    LET k == IF InIndexRange(possible, coords.skeleton)
             THEN PyIndex(possible, coords.skeleton)
             ELSE Len(generated) - 1
        scripts == generated[k + 1]
    IN  IF InIndexRange(scripts, coords.script) THEN << PyIndex(scripts, coords.script) >>
        ELSE IF scripts /= <<>> THEN << scripts[Len(scripts)] >>
        ELSE <<>>

SelectScript(generated, possible, coords) ==
    IF ~InIndexRange(possible, coords.skeleton) THEN <<>>
    ELSE LET k == PyIndex(possible, coords.skeleton)
         IN  IF ~InIndexRange(generated, k) THEN <<>>
             ELSE LET scripts == PyIndex(generated, k)
                  IN  IF ~InIndexRange(scripts, coords.script) THEN <<>>
                      ELSE << PyIndex(scripts, coords.script) >>

\* waitForJobs(): jobs_by_state
JobsByState(registered) ==
    [waiting |-> getJobsWithStates(registered, "waiting"),
     running |-> getJobsWithStates(registered, "running"),
     succeed |-> getJobsWithStates(registered, "succeed"),
     failed |-> getJobsWithStates(registered, "failed")]

\* waitForJobs(): the condition of the break
AllFinishedSubset(jobs_by_state, ids) ==
    (jobs_by_state.succeed \cup jobs_by_state.failed) \subseteq Range(ids)

AllFinished(jobs_by_state, ids) ==
    (jobs_by_state.succeed \cup jobs_by_state.failed) = Range(ids)

\* waitForJobs(): the value returned
WaitSuccessAnySucceed(jobs_by_state) == jobs_by_state.succeed /= {}

WaitSuccess(jobs_by_state) == jobs_by_state.failed = {}

\* run(): the failures counter after waitForJobs
FailuresAfterWaitInverted(f, ok) == IF ok THEN f + 1 ELSE f

FailuresAfterWait(f, ok) == IF ~ok THEN f + 1 ELSE f

\* run(): the corruptions counter after downloadSimulations
CorruptionsAfterDownloadUncounted(c, ok) == c

CorruptionsAfterDownload(c, ok) == IF ~ok THEN c + 1 ELSE c

\* run(): where a round goes on once waitForJobs has returned
AfterWaitAbortOnFailure(ok) == IF ok THEN "download" ELSE "loop"

AfterWait(ok) == "download"

\* ----------------------------------------------------------------- actions

\* run(): the counters once they are reset
CountersResetKept(c, f) == [corruptions_counter |-> c, failures_counter |-> f]

CountersReset(c, f) == [corruptions_counter |-> 0, failures_counter |-> 0]

\* run() is called: 'run-start', the launch option is decoded, the counters are reset
RunCalled(launch_options) ==
    /\ \E launch \in launch_options :
        /\ recipe' = [launch |-> launch, basedir |-> 0]
        /\ IF ParseOk(launch)
           THEN /\ script_coords' = parseScriptToLaunch(launch)
                /\ corruptions_counter' =
                      CountersReset(corruptions_counter, failures_counter).corruptions_counter
                /\ failures_counter' =
                      CountersReset(corruptions_counter, failures_counter).failures_counter
                /\ pc' = "loop"
                /\ error' = NoError
           ELSE /\ script_coords' = NoCoords
                /\ UNCHANGED <<corruptions_counter, failures_counter>>
                /\ pc' = "error"
                /\ error' = [type |-> "ValueError", script_coords |-> NoCoords]
    /\ published' = <<Event("run-start", <<>>)>>
    /\ unknown_simulations' = Unbound
    /\ jobs_ids' = <<>>
    /\ success' = TRUE
    /\ generated_scripts' = <<>>
    /\ remote_executed' = <<>>
    /\ returned' = Unbound
    /\ extracted' = <<>>
    /\ outcomes' = <<>>
    /\ run_end_count' = 0
    /\ closed_in_a_row' = 0
    /\ received' = <<>>
    /\ UNCHANGED <<busvars, simvars, parsevars, targets_type, folders, remote_opened, remote_closed, max_corrupted, max_failures, known, jobs, previous_states,
                   remote_open, remote_dirs>>

\* run() is called on a Maker on which it was not called before
RunStart ==
    /\ pc = "idle"
    /\ RunCalled(LaunchOptions)
    /\ UNCHANGED previous_run

\* run() is called, with the same recipe, on a Maker whose first run() returned
\* with a counter above its threshold
RunAgain ==
    /\ pc = "done"
    /\ previous_run = NoRun
    /\ ~LoopCondition(corruptions_counter, failures_counter)
    /\ closed_in_a_row = 0
    /\ previous_run' = "exceeded"
    /\ RunCalled({recipe.launch})

\* one extractSimulations(sims) of the loop of run(), and the test that follows it
ExtractStep(sims) ==
    /\ pc = "loop"
    /\ LoopCondition(corruptions_counter, failures_counter)
    /\ unknown_simulations' = batchExtract(sims, known)
    /\ published' = <<Event("extract-start", <<sims>>)>>
                    \o Repeat(Event("extract-progress", <<>>), Len(sims))
                    \o <<Event("extract-end", <<>>)>>
    /\ extracted' = Append(extracted, unknown_simulations')
    /\ pc' = IF unknown_simulations' = <<>> THEN "runend" ELSE "generate"
    /\ UNCHANGED <<busvars, simvars, parsevars, targetvars, previous_run, remote_opened, remote_closed, closed_in_a_row, max_corrupted, max_failures, corruptions_counter, failures_counter,
                   known, recipe, script_coords, jobs_ids, success, jobs,
                   previous_states, remote_open, remote_dirs, generated_scripts, remote_executed,
                   returned, error, outcomes, run_end_count>>

ExtractPrevious ==
    ExtractStep(IF unknown_simulations = Unbound THEN simulations ELSE unknown_simulations)

Extract == ExtractStep(simulations)

\* the condition of the loop of run() is false
LoopExit ==
    /\ pc = "loop"
    /\ ~LoopCondition(corruptions_counter, failures_counter)
    /\ pc' = "runend"
    /\ published' = <<>>
    /\ UNCHANGED <<busvars, simvars, parsevars, targetvars, previous_run, remote_opened, remote_closed, closed_in_a_row, max_corrupted, max_failures, corruptions_counter, failures_counter,
                   known, recipe, script_coords, unknown_simulations, jobs_ids, success,
                   jobs, previous_states, remote_open, remote_dirs, generated_scripts, remote_executed,
                   returned, error, extracted, outcomes, run_end_count>>

\* the property _remote_folder: the events triggered, for an instance that is
\* set (open) or None
RemoteOpeningAlways(open) ==
    <<Event("remote-open-start", <<>>), Event("remote-open-end", <<>>)>>

RemoteOpening(open) ==
    IF open THEN <<>>
    ELSE <<Event("remote-open-start", <<>>), Event("remote-open-end", <<>>)>>

\* generateSimulations: the value given to recipe['basedir'], `sent` being the
\* directory returned by sendDir
BaseDirOfFirstRound(basedir, sent) == IF basedir = 0 THEN sent ELSE basedir

BaseDir(basedir, sent) == sent

\* generateSimulations(unknown_simulations, generator_recipe, script_coords)
Generate ==
    /\ pc = "generate"
    /\ Len(outcomes) < MaxRounds
    /\ \E nscripts \in 0..MaxScripts, njobs \in 0..MaxJobs :
        LET opening == RemoteOpening(remote_open)
            scripts_dir == mkdtemp(Len(outcomes))
            basedir == BaseDir(recipe.basedir, sendDir(scripts_dir))
            scripts ==
                generate(Len(subgroups_skeletons \o wholegroup_skeletons), nscripts)
            script_to_launch == SelectScript(scripts,
                                             possible_skeletons_to_launch(script_coords.name),
                                             script_coords)
        IN  /\ remote_open' = TRUE
            /\ remote_opened' = IF remote_open THEN remote_opened ELSE remote_opened + 1
            /\ generated_scripts' = scripts
            /\ recipe' = [recipe EXCEPT !.basedir = basedir]
            /\ remote_dirs' = remote_dirs \cup {sendDir(scripts_dir)}
            /\ IF script_to_launch = <<>>
               THEN /\ error' = [type |-> "ScriptNotFoundError", script_coords |-> script_coords]
                    /\ pc' = "error"
                    /\ published' = <<Event("generate-start", <<>>)>> \o opening
                    /\ UNCHANGED <<remote_executed, jobs_ids>>
               ELSE /\ remote_executed' = script_to_launch
                    /\ jobs_ids' = [i \in 1..njobs |-> i]
                    /\ pc' = "waitstart"
                    /\ published' = <<Event("generate-start", <<>>)>> \o opening
                                    \o <<Event("generate-end", <<>>)>>
                    /\ UNCHANGED error
    /\ UNCHANGED <<busvars, simvars, parsevars, targetvars, previous_run, remote_closed, closed_in_a_row, max_corrupted, max_failures, corruptions_counter, failures_counter,
                   known, script_coords, unknown_simulations, success, jobs,
                   previous_states, returned, extracted, outcomes, run_end_count>>

\* waitForJobs(): 'wait-start' and the registration of the jobs
WaitStart ==
    /\ pc = "waitstart"
    /\ published' = <<Event("wait-start", <<jobs_ids>>)>>
    /\ previous_states' = {}
    /\ jobs' = AddJobs(jobs, jobs_ids)
    /\ generated_scripts' = <<>>
    /\ remote_executed' = <<>>
    /\ pc' = "wait"
    /\ UNCHANGED <<busvars, simvars, parsevars, targetvars, previous_run, remote_opened, remote_closed, closed_in_a_row, max_corrupted, max_failures, corruptions_counter, failures_counter,
                   known, recipe, script_coords, unknown_simulations, jobs_ids, success,
                   remote_open, remote_dirs, returned, error, extracted, outcomes,
                   run_end_count>>

\* waitForJobs(): jobs_by_state != previous_states, where `previous` is empty
\* ({} in the code, that no partition equals) or holds the partition of the
\* poll before
StatesChangedAfterFirst(previous, jobs_by_state) ==
    previous /= {} /\ previous /= {jobs_by_state}

StatesChanged(previous, jobs_by_state) == previous /= {jobs_by_state}

\* waitForJobs(): the jobs the JobsManager holds once the loop is left, after
\* self._jobs_manager.clear()
JobsAfterWaitKept(registered) == registered

JobsAfterWait(registered) == <<>>

\* waitForJobs(): one iteration of the polling loop; on the break, the end of
\* waitForJobs and the update of the failures counter in run()
Poll ==
    /\ pc = "wait"
    /\ \E read \in [DOMAIN jobs -> JobStates] :
        /\ \A i \in DOMAIN jobs : CanBecome(jobs[i], read[i])
        /\ LET jobs_by_state == JobsByState(read)
               changed == StatesChanged(previous_states, jobs_by_state)
               progress == IF changed THEN <<Event("wait-progress", <<jobs_by_state>>)>>
                           ELSE <<>>
           IN  IF changed /\ AllFinished(jobs_by_state, jobs_ids)
               THEN /\ jobs' = JobsAfterWait(read)
                    /\ jobs_ids' = <<>>
                    /\ published' = progress \o <<Event("wait-end", <<>>)>>
                    /\ success' = WaitSuccess(jobs_by_state)
                    /\ failures_counter' = FailuresAfterWait(failures_counter, success')
                    /\ pc' = AfterWait(success')
                    /\ previous_states' = {}
               ELSE /\ jobs' = read
                    /\ published' = progress
                    /\ previous_states' = {jobs_by_state}
                    /\ UNCHANGED <<success, failures_counter, pc, jobs_ids>>
    /\ UNCHANGED <<busvars, simvars, parsevars, targetvars, previous_run, remote_opened, remote_closed, closed_in_a_row, max_corrupted, max_failures, corruptions_counter, known, recipe,
                   script_coords, unknown_simulations, remote_open,
                   remote_dirs, generated_scripts, remote_executed, returned, error, extracted, outcomes,
                   run_end_count>>

\* the temporary directories made by the downloads of the finished rounds
RECURSIVE TmpDirsMade(_)
TmpDirsMade(round) ==
    IF round = 0 THEN 0 ELSE Len(extracted[round]) + TmpDirsMade(round - 1)

\* downloadSimulations(): simulations_to_add once the loop is over; `present` are
\* the simulations with a remote folder, `made` the temporary directories that
\* exist already
RECURSIVE SimulationsToAddUntilMissing(_, _, _)
SimulationsToAddUntilMissing(sims, present, made) ==
    IF sims = <<>> \/ Head(sims) \notin present THEN <<>>
    ELSE <<[simulation |-> Head(sims), folder |-> mkdtemp(made), empty |-> FALSE]>>
         \o SimulationsToAddUntilMissing(Tail(sims), present, made + 1)

RECURSIVE SimulationsToAdd(_, _, _)
SimulationsToAdd(sims, present, made) ==
    IF sims = <<>> THEN <<>>
    ELSE <<[simulation |-> Head(sims),
            folder |-> mkdtemp(made),
            empty |-> Head(sims) \notin present]>>
         \o SimulationsToAdd(Tail(sims), present, made + 1)

\* downloadSimulations(): the events triggered
DownloadEventsAdditionFirst(sims, simulations_to_add) ==
    <<Event("download-start", <<sims>>),
      Event("addition-start", <<simulations_to_add>>)>>
    \o Repeat(Event("download-progress", <<>>), Len(simulations_to_add))
    \o <<Event("download-end", <<>>)>>
    \o Repeat(Event("addition-progress", <<>>), Len(simulations_to_add))
    \o <<Event("addition-end", <<>>)>>

DownloadEvents(sims, simulations_to_add) ==
    <<Event("download-start", <<sims>>)>>
    \o Repeat(Event("download-progress", <<>>), Len(simulations_to_add))
    \o <<Event("download-end", <<>>),
         Event("addition-start", <<simulations_to_add>>)>>
    \o Repeat(Event("addition-progress", <<>>), Len(simulations_to_add))
    \o <<Event("addition-end", <<>>)>>

\* downloadSimulations(): the paths receiveDir is asked for, simulation['folder']
\* of each simulation of the list
ReceivedPaths(sims, fs) == [i \in 1..Len(sims) |-> fs[sims[i]]]

\* downloadSimulations(): the simulations of the list for which receiveDir finds
\* the path it is asked for, `present` being those with an output in the remote
\* folder
Found(sims, fs, present) == {s \in Range(sims) \cap present : fs[s] = RemoteOutput(s)}

\* downloadSimulations(): the 'folder' of the entries of the list given to it
\* once it returned: simulation['folder'] = tmpdir is done on the object
\* ensureType returned
FoldersAfterDownload(type, fs, simulations_to_add) ==
    IF ensureTypeReturnsTheSame(type)
    THEN [s \in DOMAIN fs |->
            IF \E i \in DOMAIN simulations_to_add : simulations_to_add[i].simulation = s
            THEN LocalDir(simulations_to_add[
                              CHOOSE i \in DOMAIN simulations_to_add :
                                  simulations_to_add[i].simulation = s].folder)
            ELSE fs[s]]
    ELSE fs

\* downloadSimulations(unknown_simulations) and the update of the corruptions
\* counter in run(); `present` are the simulations with an output in the remote
\* folder, `added` those the Manager accepts
Download ==
    /\ pc = "download"
    /\ \E present \in SUBSET Range(unknown_simulations),
          added \in SUBSET Range(unknown_simulations) :
        LET simulations_to_add ==
                SimulationsToAdd(unknown_simulations,
                                 Found(unknown_simulations, folders, present),
                                 TmpDirsMade(Len(outcomes)))
            batch == [i \in 1..Len(simulations_to_add) |-> simulations_to_add[i].simulation]
            failed_to_add == batchAdd(batch, added)
        IN  /\ published' = DownloadEvents(unknown_simulations, simulations_to_add)
            /\ known' = known \cup (Range(batch) \cap added)
            /\ outcomes' = Append(outcomes, [failed |-> ~success,
                                             rejected |-> failed_to_add /= <<>>])
            /\ success' = (failed_to_add = <<>>)
            /\ corruptions_counter' = CorruptionsAfterDownload(corruptions_counter, success')
            /\ folders' = FoldersAfterDownload(targets_type, folders, simulations_to_add)
    /\ received' = Append(received, ReceivedPaths(unknown_simulations, folders))
    /\ pc' = "delete"
    /\ UNCHANGED <<busvars, simvars, parsevars, targets_type, previous_run, remote_opened, remote_closed, closed_in_a_row, max_corrupted, max_failures, failures_counter, recipe, script_coords,
                   unknown_simulations, jobs_ids, jobs, previous_states, remote_open,
                   remote_dirs, generated_scripts, remote_executed, returned, error, extracted,
                   run_end_count>>

\* the end of a round: 'delete-scripts' and deleteRemote([basedir])
DeleteScripts ==
    /\ pc = "delete"
    /\ published' = <<Event("delete-scripts", <<>>)>>
    /\ remote_dirs' = remote_dirs \ {recipe.basedir}
    /\ pc' = "loop"
    /\ UNCHANGED <<busvars, simvars, parsevars, targetvars, previous_run, remote_opened, remote_closed, closed_in_a_row, max_corrupted, max_failures, corruptions_counter, failures_counter,
                   known, recipe, script_coords, unknown_simulations, jobs_ids, success,
                   jobs, previous_states, remote_open, generated_scripts, remote_executed, returned, error,
                   extracted, outcomes, run_end_count>>

\* the end of run(): 'run-end' and the return
RunEndStep(carried) ==
    /\ pc = "runend"
    /\ IF unknown_simulations = Unbound
       THEN /\ error' = [type |-> "UnboundLocalError", script_coords |-> NoCoords]
            /\ pc' = "error"
            /\ published' = <<>>
            /\ UNCHANGED <<returned, run_end_count>>
       ELSE /\ published' = <<Event("run-end", <<carried>>)>>
            /\ run_end_count' = run_end_count + 1
            /\ returned' = unknown_simulations
            /\ pc' = "done"
            /\ UNCHANGED error
    /\ UNCHANGED <<busvars, simvars, parsevars, targetvars, previous_run, remote_opened, remote_closed, closed_in_a_row, max_corrupted, max_failures, corruptions_counter, failures_counter,
                   known, recipe, script_coords, unknown_simulations, jobs_ids, success,
                   jobs, previous_states, remote_open, remote_dirs, generated_scripts, remote_executed,
                   extracted, outcomes>>

RunEndCarryingTargets == RunEndStep(simulations)

RunEnd == RunEndStep(unknown_simulations)

\* close(): self._remote_folder_instance.close() inside try/except AttributeError,
\* for an instance that is set (open) or None; whether RemoteFolder.close() is
\* called and whether close() raises
RemoteCloseUnguarded(open) == [closes |-> open, raises |-> ~open]

RemoteClose(open) == [closes |-> open, raises |-> FALSE]

\* close(), called when run() is not running
Close ==
    /\ pc \in {"idle", "done", "error"}
    /\ closed_in_a_row < MaxCloses
    /\ closed_in_a_row' = closed_in_a_row + 1
    /\ LET outcome == RemoteClose(remote_open)
       IN  /\ remote_closed' = IF outcome.closes THEN remote_closed + 1 ELSE remote_closed
           /\ IF outcome.raises
              THEN /\ error' = [type |-> "AttributeError", script_coords |-> NoCoords]
                   /\ published' = <<Event("close-start", <<>>)>>
                   /\ UNCHANGED remote_open
              ELSE /\ remote_open' = FALSE
                   /\ published' = <<Event("close-start", <<>>), Event("close-end", <<>>)>>
                   /\ UNCHANGED error
    /\ UNCHANGED <<busvars, simvars, parsevars, targetvars, previous_run, remote_opened, pc, max_corrupted, max_failures,
                   corruptions_counter, failures_counter, known, recipe, script_coords,
                   unknown_simulations, jobs_ids, success, jobs, previous_states,
                   remote_dirs, generated_scripts, remote_executed, returned, extracted,
                   outcomes, run_end_count>>

Next ==
    \/ RunStart
    \/ Extract
    \/ LoopExit
    \/ Generate
    \/ WaitStart
    \/ Poll
    \/ Download
    \/ DeleteScripts
    \/ RunEnd
    \/ Close

Spec == Init /\ [][Next]_vars

\* the poll that reads every job of the round succeed or failed
PollEnds == Poll /\ pc' /= "wait"

\* a step of run() once it is called; of the polls, the one that ends the wait
RunGoesOn ==
    \/ Extract
    \/ LoopExit
    \/ Generate
    \/ WaitStart
    \/ PollEnds
    \/ Download
    \/ DeleteScripts
    \/ RunEnd

\* a Maker made with both thresholds at 0 or above, whose Manager holds no target
LiveInit == Init /\ max_failures >= 0 /\ max_corrupted >= 0 /\ known = {}

\* run() is called once and nothing else is
LiveNext ==
    \/ RunStart
    \/ Extract
    \/ LoopExit
    \/ Generate
    \/ WaitStart
    \/ Poll
    \/ Download
    \/ DeleteScripts
    \/ RunEnd

\* run() goes on to its next statement, and the jobs of a round end at last
LiveSpec == LiveInit /\ [][LiveNext]_vars /\ WF_vars(RunGoesOn)

\* run() given a list of dicts or a list of Simulation objects
TargetsInit == InitWith(TargetsTypes)

TargetsSpec == TargetsInit /\ [][Next]_vars

\* run() called a second time once it returned with a counter above its threshold
RerunNext ==
    \/ RunStart
    \/ RunAgain
    \/ Extract
    \/ LoopExit
    \/ Generate
    \/ WaitStart
    \/ Poll
    \/ Download
    \/ DeleteScripts
    \/ RunEnd

RerunSpec == Init /\ [][RerunNext]_vars

\* ------------------------------------------------ the selection of the script

\* launch options that name a skeleton with and without coordinates, counted
\* from the start and from the end, in and out of range
SelectedLaunchOptions ==
    { <<"a">>,
      <<"a", ":", "0">>,
      <<"a", ":", "1">>,
      <<"a", ":", "2">>,
      <<"a", ":", "-", "2">>,
      <<"a", ":", "-", "3">>,
      <<"a", ":", "0", ":", "0">>,
      <<"a", ":", "-", "1", ":", "1">>,
      <<"a", ":", "1", ":", "-", "2">>,
      <<"a", ":", "0", ":", "-", "3">>,
      <<"b", ":", "0", ":", "-", "1">>,
      <<"b", ":", "-", "1", ":", "2">>,
      <<"c">> }

\* run(simulations, generator_recipe) with one of these launch options
RunStartSelecting ==
    /\ pc = "idle"
    /\ RunCalled(SelectedLaunchOptions)
    /\ UNCHANGED previous_run

\* run() up to the end of the first generateSimulations
SelectNext ==
    \/ RunStartSelecting
    \/ Extract
    \/ Generate

SelectSpec == Init /\ [][SelectNext]_vars

\* ------------------------------------------- calls on the Simulation object

\* a call and its outcome
Called(op, arg, outcome) ==
    [op |-> op, arg |-> arg, ret |-> outcome.ret, err |-> outcome.err,
     steps |-> outcome.steps]

NotCalled == [op |-> "none", arg |-> <<>>, ret |-> <<>>, err |-> "none", steps |-> 0]

\* a Maker on which no method is called
MakerIdle ==
    /\ pc = "idle"
    /\ max_corrupted = -1
    /\ max_failures = 0
    /\ corruptions_counter = 0
    /\ failures_counter = 0
    /\ known = {}
    /\ recipe = [launch |-> <<>>, basedir |-> 0]
    /\ script_coords = NoCoords
    /\ unknown_simulations = Unbound
    /\ jobs_ids = <<>>
    /\ success = TRUE
    /\ jobs = <<>>
    /\ previous_states = {}
    /\ remote_open = FALSE
    /\ remote_dirs = {}
    /\ generated_scripts = <<>>
    /\ remote_executed = <<>>
    /\ published = <<>>
    /\ returned = <<>>
    /\ error = NoError
    /\ extracted = <<>>
    /\ outcomes = <<>>
    /\ run_end_count = 0
    /\ remote_opened = 0
    /\ remote_closed = 0
    /\ closed_in_a_row = 0
    /\ targets_type = "dict"
    /\ folders = [s \in Range(simulations) |-> RemoteOutput(s)]
    /\ received = <<>>
    /\ previous_run = NoRun

SimInit ==
    /\ simulation \in Simulations
    /\ called = NotCalled
    /\ events_callbacks = <<>>
    /\ listened = <<>>
    /\ launch_given = <<>>
    /\ launch_decoded = <<>>
    /\ MakerIdle

\* the outcome of a call becomes the state
Calling(op, arg, outcome) ==
    /\ \E made \in {outcome} :
          /\ simulation' = made.sim
          /\ called' = Called(op, arg, made)
    /\ UNCHANGED <<makervars, busvars, parsevars, targetvars, previous_run>>

\* simulation.reduced_globalsettings is read
ReadReducedGlobalSettings ==
    Calling("reduced_globalsettings", <<>>, reduced_globalsettings(simulation, 0))

\* simulation.settings is read
ReadSettings == Calling("settings", <<>>, settings_property(simulation, 0))

\* simulation.reduced_settings is read
ReadReducedSettings == Calling("reduced_settings", <<>>, reduced_settings(simulation, 0))

\* simulation.command_line is read
ReadCommandLine == Calling("command_line", <<>>, command_line(simulation, 0))

\* simulation.parseString(s) is called
CallParseString == \E s \in Strings : Calling("parseString", s, parseString(simulation, s))

SimNext ==
    \/ ReadReducedGlobalSettings
    \/ ReadSettings
    \/ ReadReducedSettings
    \/ ReadCommandLine
    \/ CallParseString

SimSpec == SimInit /\ [][SimNext]_vars

\* ------------------------------------------ the global settings read and written

\* the objects whose global settings are read and written
ItemSimulations ==
    { NewSimulation(PlainFolder, NoUserSettings),
      NewSimulation(PlainFolder, TwoValuesSets),
      NewSimulation(CrossFolder, NoUserSettings),
      NewSimulation(ChainFolder, NoUserSettings),
      NewSimulation(ChainFolder, OneGlobal),
      NewSimulation(OptionalFolder, NoUserSettings),
      NewSimulation(NoGlobalsFolder, NoUserSettings) }

\* the keys given to simulation[key]
Keys == { <<"h">>, <<"g">>, <<"q">> }

\* the values written
WrittenValues == { IntValue(8), StrValue(<<"n", "=">> \o GlobalTag(<<"h">>)), StrValue(SettingTag(<<"x">>)) }

ItemInit ==
    /\ simulation \in ItemSimulations
    /\ called = NotCalled
    /\ events_callbacks = <<>>
    /\ listened = <<>>
    /\ launch_given = <<>>
    /\ launch_decoded = <<>>
    /\ MakerIdle

\* simulation[key] is read
GetItem == \E key \in Keys : Calling("getitem", [key |-> key], getitem(simulation, key))

\* simulation[key] = value
SetItem ==
    \E key \in Keys, value \in WrittenValues :
        Calling("setitem", [key |-> key, value |-> value], setitem(simulation, key, value))

ItemNext ==
    \/ GetItem
    \/ SetItem
    \/ ReadReducedGlobalSettings
    \/ ReadReducedSettings
    \/ ReadSettings

ItemSpec == ItemInit /\ [][ItemNext]_vars

\* ------------------------------------------------ the events of the Maker

\* largest number of functions the event listeners hold
MaxListeners == 2

\* FCollection(categories = ...): no function in any category
FCollection(categories) == [category \in categories |-> <<>>]

\* the dict d, as (name, value) pairs, after d[name] = value
SetKey(d, name, value) ==
    IF HasKey(d, name)
    THEN [k \in 1..Len(d) |-> IF d[k].name = name THEN Pair(name, value) ELSE d[k]]
    ELSE Append(d, Pair(name, value))

\* FCollection.set(fname, f, category = category)
FCollectionSet(collection, fname, f, category) ==
    IF category \notin DOMAIN collection
    THEN [collection |-> collection, err |-> "FCollectionCategoryNotFoundError"]
    ELSE [collection |-> [collection EXCEPT ![category] = SetKey(@, fname, f)],
          err |-> "none"]

\* FCollection.getAll(category = category)
FCollectionGetAll(collection, category) ==
    IF category \notin DOMAIN collection
    THEN [functions |-> <<>>, err |-> "FCollectionCategoryNotFoundError"]
    ELSE [functions |-> [k \in 1..Len(collection[category]) |-> collection[category][k].value],
          err |-> "none"]

\* addEventListener(event, f): the listeners afterwards and the exception raised
addEventListenerAnyEvent(collection, event, f) ==
    LET stored == FCollectionSet([e \in DOMAIN collection \cup {event} |->
                                     IF e \in DOMAIN collection THEN collection[e] ELSE <<>>],
                                 f.name, f, event)
    IN  [collection |-> stored.collection, err |-> "none"]

addEventListener(collection, event, f) ==
    LET stored == FCollectionSet(collection, f.name, f, event)
    IN  IF stored.err = "FCollectionCategoryNotFoundError"
        THEN [collection |-> collection, err |-> "EventUnknownError"]
        ELSE [collection |-> stored.collection, err |-> "none"]

\* the functions of every category
RECURSIVE AllFunctions(_, _)
AllFunctions(collection, categories) ==
    IF categories = {} THEN <<>>
    ELSE LET category == CHOOSE c \in categories : TRUE
         IN  FCollectionGetAll(collection, category).functions
             \o AllFunctions(collection, categories \ {category})

\* _triggerEvent(event, *args): the calls made, in order, and the exception raised
triggerEventOfAnyCategory(collection, event, args) ==
    LET functions == AllFunctions(collection, DOMAIN collection)
    IN  IF event \notin DOMAIN collection
        THEN [invoked |-> <<>>, err |-> "EventUnknownError"]
        ELSE [invoked |-> [k \in 1..Len(functions) |-> [f |-> functions[k], args |-> args]],
              err |-> "none"]

triggerEvent(collection, event, args) ==
    LET got == FCollectionGetAll(collection, event)
    IN  IF got.err = "FCollectionCategoryNotFoundError"
        THEN [invoked |-> <<>>, err |-> "EventUnknownError"]
        ELSE [invoked |-> [k \in 1..Len(got.functions) |->
                              [f |-> got.functions[k], args |-> args]],
              err |-> "none"]

\* the functions given to addEventListener: two of them have the same __name__
Callbacks ==
    { [name |-> "onEnd", id |-> 1], [name |-> "onEnd", id |-> 2],
      [name |-> "onProgress", id |-> 3] }

\* the event names given to addEventListener and _triggerEvent
ExploredEvents == {"run-end", "wait-progress", "close-start", "run-finished"}

\* the arguments given to _triggerEvent
ExploredArgs == {<<>>, <<1>>}

NotListened ==
    [op |-> "none", event |-> "", f |-> <<>>, args |-> <<>>, err |-> "none", invoked |-> <<>>]

\* the number of functions the listeners hold
RECURSIVE Held(_, _)
Held(collection, categories) ==
    IF categories = {} THEN 0
    ELSE LET category == CHOOSE c \in categories : TRUE
         IN  Len(collection[category]) + Held(collection, categories \ {category})

BusInit ==
    /\ events_callbacks = FCollection(EventNames)
    /\ listened = NotListened
    /\ simulation = <<>>
    /\ called = <<>>
    /\ launch_given = <<>>
    /\ launch_decoded = <<>>
    /\ MakerIdle

\* maker.addEventListener(event, f)
AddEventListener ==
    /\ Held(events_callbacks, DOMAIN events_callbacks) < MaxListeners
    /\ \E event \in ExploredEvents, f \in Callbacks :
          LET outcome == addEventListener(events_callbacks, event, f)
          IN  /\ events_callbacks' = outcome.collection
              /\ listened' = [op |-> "addEventListener", event |-> event, f |-> f,
                              args |-> <<>>, err |-> outcome.err, invoked |-> <<>>]
    /\ UNCHANGED <<makervars, simvars, parsevars, targetvars, previous_run>>

\* maker._triggerEvent(event, *args)
TriggerEvent ==
    /\ \E event \in ExploredEvents, args \in ExploredArgs :
          LET outcome == triggerEvent(events_callbacks, event, args)
          IN  listened' = [op |-> "_triggerEvent", event |-> event, f |-> <<>>,
                           args |-> args, err |-> outcome.err, invoked |-> outcome.invoked]
    /\ UNCHANGED <<events_callbacks, makervars, simvars, parsevars, targetvars, previous_run>>

BusNext ==
    \/ AddEventListener
    \/ TriggerEvent

BusSpec == BusInit /\ [][BusNext]_vars

\* --------------------------------------------- the decoding of launch options

\* the characters of the launch options decoded
LaunchAlphabet == {"a", ":", "1", "-"}

\* the examples of the documentation of the recipes
BuildLaunch == <<"b", "u", "i", "l", "d", ":", "2", ":", "-", "1">>
ColonsLaunch ==
    <<"g", "r", "o", "u", "p", ":", "n", "a", "m", "e", ":", "w", "i", "t", "h", ":",
      "c", "o", "l", "o", "n", "s", ":", "1">>

\* the launch options decoded
LaunchStrings ==
    UNION {[1..n -> LaunchAlphabet] : n \in 0..MaxLaunchLen}
    \cup {BuildLaunch, ColonsLaunch, <<"a", ":", "1", ":", "2", ":", "3">>}

NotDecoded == [done |-> FALSE, err |-> "none", ret |-> NoCoords]

ParseInit ==
    /\ launch_given \in LaunchStrings
    /\ launch_decoded = NotDecoded
    /\ events_callbacks = <<>>
    /\ listened = <<>>
    /\ simulation = <<>>
    /\ called = <<>>
    /\ MakerIdle

\* maker.parseScriptToLaunch(launch_given) returns
ParseReturns ==
    /\ ~launch_decoded.done
    /\ ParseOk(launch_given)
    /\ launch_decoded' = [done |-> TRUE, err |-> "none",
                          ret |-> parseScriptToLaunch(launch_given)]
    /\ UNCHANGED <<launch_given, makervars, busvars, simvars, targetvars, previous_run>>

\* maker.parseScriptToLaunch(launch_given) raises: max() of an empty list
ParseRaises ==
    /\ ~launch_decoded.done
    /\ ~ParseOk(launch_given)
    /\ launch_decoded' = [done |-> TRUE, err |-> "ValueError", ret |-> NoCoords]
    /\ UNCHANGED <<launch_given, makervars, busvars, simvars, targetvars, previous_run>>

ParseNext ==
    \/ ParseReturns
    \/ ParseRaises

ParseSpec == ParseInit /\ [][ParseNext]_vars

\* ------------------------------------------------------------------ claims

\* the finished rounds of this run, and those in which a job ended FAILED
Rounds == Len(outcomes)
EveryRoundFailed == \A i \in 1..Len(outcomes) : outcomes[i].failed
EveryExtractNonEmpty == \A i \in 1..Len(extracted) : extracted[i] /= <<>>
InRound == pc \in {"generate", "waitstart", "wait", "download"}

\* C1: with max_failures = k >= 0 and max_corrupted < 0, a run whose every round
\* has a FAILED job and whose every Extract leaves a target unknown never starts
\* a round after its (k+1)-th one, and has executed exactly k+1 rounds when it
\* returns.
C1_FailingRunStopsAfterKPlusOneRounds ==
    (max_failures >= 0 /\ max_corrupted < 0 /\ EveryRoundFailed /\ EveryExtractNonEmpty)
    => /\ Rounds <= max_failures + 1
       /\ InRound => Rounds <= max_failures
       /\ pc = "done" => Rounds = max_failures + 1

C1_Witness ==
    /\ pc = "done"
    /\ max_failures = 1
    /\ max_corrupted = -1
    /\ EveryRoundFailed
    /\ EveryExtractNonEmpty
    /\ Rounds = 2

\* C2: the loop of run() ends only when Extract returned an empty list or when a
\* counter exceeds its non-negative threshold; a counter whose threshold is
\* negative never ends it.
C2_NegativeThresholdNeverStops ==
    pc \in {"runend", "done"}
    => \/ unknown_simulations = <<>>
       \/ (max_corrupted >= 0 /\ corruptions_counter > max_corrupted)
       \/ (max_failures >= 0 /\ failures_counter > max_failures)

C2_Witness ==
    /\ max_failures = -1
    /\ max_corrupted = -1
    /\ failures_counter = 2
    /\ corruptions_counter = 2
    /\ pc = "generate"

\* C3: when run() has returned, the returned list is empty if and only if the
\* Manager holds every target simulation.
C3_EmptyIffAllKnown ==
    pc = "done" => ((returned = <<>>) <=> (Range(simulations) \subseteq known))

\* C4: run() returns the result of its last Extract, and 'run-end' is triggered
\* exactly once, as the last event of the run, with that list.
C4_ReturnsLastExtract ==
    /\ run_end_count = (IF pc = "done" THEN 1 ELSE 0)
    /\ pc = "done"
       => /\ extracted /= <<>>
          /\ returned = extracted[Len(extracted)]
          /\ closed_in_a_row = 0 => published = <<Event("run-end", <<returned>>)>>

C4_Witness ==
    /\ pc = "done"
    /\ closed_in_a_row = 0
    /\ Len(extracted) = 2
    /\ returned /= <<>>
    /\ returned /= simulations

\* C5: every Extract is handed the whole target list and returns only targets the
\* Manager does not hold; the results of the successive Extracts of a run are
\* non-increasing subsets of the targets.
C5_ExtractOverFullTargetList ==
    /\ (published /= <<>> /\ published[1].name = "extract-start")
       => /\ published[1].args = <<simulations>>
          /\ unknown_simulations = extracted[Len(extracted)]
          /\ Range(unknown_simulations) = Range(simulations) \ known
    /\ \A i \in 1..Len(extracted) : Range(extracted[i]) \subseteq Range(simulations)
    /\ \A i \in 1..Len(extracted) : \A j \in i..Len(extracted) :
          Range(extracted[j]) \subseteq Range(extracted[i])

C5_Witness ==
    /\ Len(extracted) = 2
    /\ extracted[1] = simulations
    /\ extracted[2] /= <<>>
    /\ extracted[2] /= extracted[1]
    /\ published /= <<>>
    /\ published[1].name = "extract-start"

\* round 1 started from the whole target list, no job of it failed and the
\* Manager rejected none of its simulations
CleanFirstRound ==
    /\ Rounds >= 1
    /\ extracted[1] = simulations
    /\ ~outcomes[1].failed
    /\ ~outcomes[1].rejected

\* C6: if all targets are unknown at first, every job of round 1 succeeds and the
\* Manager rejects nothing, the run has one round only, followed by one more
\* Extract, and returns the empty list with both counters at 0.
C6_CleanRunIsOneRound ==
    CleanFirstRound
    => /\ Rounds = 1
       /\ Len(extracted) <= 2
       /\ pc \in {"delete", "loop", "runend", "done"}
       /\ failures_counter = 0
       /\ corruptions_counter = 0
       /\ pc \in {"runend", "done"} => (Len(extracted) = 2 /\ unknown_simulations = <<>>)
       /\ pc = "done" => returned = <<>>

C6_Witness ==
    /\ pc = "done"
    /\ CleanFirstRound
    /\ returned = <<>>
    /\ Len(extracted) = 2

\* the partition carried by the 'wait-progress' triggered by the last step
ProgressPublished == published /= <<>> /\ published[1].name = "wait-progress"
PublishedPartition == published[1].args[1]
Terminal(jobs_by_state) == jobs_by_state.succeed \cup jobs_by_state.failed

\* C7: waitForJobs ends only on a poll in which the jobs seen in SUCCEED or FAILED
\* are exactly jobs_ids (none is WAITING or RUNNING), and it does not go on
\* polling after such a poll.
C7_WaitEndsWhenAllTerminal ==
    [][pc = "wait"
       => /\ pc' /= "wait"
             => /\ ProgressPublished'
                /\ Terminal(PublishedPartition') = Range(jobs_ids)
                /\ PublishedPartition'.waiting = {}
                /\ PublishedPartition'.running = {}
          /\ pc' = "wait"
             => /\ DOMAIN jobs' = Range(jobs_ids)
                /\ Terminal(JobsByState(jobs')) /= Range(jobs_ids)]_vars

C7_Witness ==
    /\ pc = "download"
    /\ ProgressPublished
    /\ PublishedPartition.succeed = {1}
    /\ PublishedPartition.failed = {2}

\* the events of the last step whose name is `name`
PublishedNamed(name) == {i \in 1..Len(published) : published[i].name = name}

\* the last step asked the download of every simulation of `sims` and handed
\* them all, in order, to the Manager
DownloadedAndHanded(sims) ==
    /\ Len(published) >= 1
    /\ published[1] = Event("download-start", <<sims>>)
    /\ Cardinality(PublishedNamed("download-progress")) = Len(sims)
    /\ \E i \in PublishedNamed("addition-start") :
          LET batch == published[i].args[1]
          IN  /\ Len(batch) = Len(sims)
              /\ \A k \in 1..Len(sims) : batch[k].simulation = sims[k]

\* C8: a round in which a job ended FAILED goes on: the failures counter is
\* incremented, every simulation of the round is downloaded and handed to the
\* Manager, the remote scripts directory is deleted, and only then the loop
\* condition is evaluated again.
C8_FailedRoundIsCompleted ==
    [][/\ (pc = "wait" /\ pc' /= "wait" /\ ~success')
          => /\ pc' = "download"
             /\ failures_counter' = failures_counter + 1
             /\ unknown_simulations' = unknown_simulations
       /\ (pc = "download" /\ ~success)
          => /\ pc' = "delete"
             /\ DownloadedAndHanded(unknown_simulations)'
             /\ outcomes' = Append(outcomes, [failed |-> TRUE,
                                              rejected |-> ~(Range(unknown_simulations) \subseteq known')])
       /\ (pc = "delete" /\ outcomes[Len(outcomes)].failed)
          => /\ pc' = "loop"
             /\ recipe.basedir \in remote_dirs
             /\ remote_dirs' = remote_dirs \ {recipe.basedir}
             /\ published' = <<Event("delete-scripts", <<>>)>>
       /\ pc' = "loop" => pc \in {"idle", "delete"}]_vars

C8_Witness ==
    /\ pc = "loop"
    /\ Rounds = 1
    /\ outcomes[1].failed
    /\ failures_counter = 1
    /\ known = Range(simulations)
    /\ remote_dirs = {}

\* C9: a round adds exactly 1 to the failures counter iff one of its jobs ended
\* FAILED, and exactly 1 to the corruptions counter iff the Manager rejected one
\* of its simulations, whatever their numbers; no other step of a run changes a
\* counter.
C9_CounterUpdateRule ==
    [][/\ (pc = "wait" /\ pc' /= "wait")
          => /\ failures_counter' =
                    failures_counter + (IF PublishedPartition'.failed /= {} THEN 1 ELSE 0)
             /\ corruptions_counter' = corruptions_counter
       /\ pc = "download"
          => /\ corruptions_counter' =
                    corruptions_counter
                    + (IF Range(unknown_simulations) \subseteq known' THEN 0 ELSE 1)
             /\ failures_counter' = failures_counter
       /\ (pc \notin {"idle", "download"} /\ ~(pc = "wait" /\ pc' /= "wait"))
          => /\ failures_counter' = failures_counter
             /\ corruptions_counter' = corruptions_counter]_vars

C9_Witness ==
    /\ pc = "delete"
    /\ Rounds = 1
    /\ failures_counter = 1
    /\ corruptions_counter = 1
    /\ Len(unknown_simulations) = 2
    /\ known = {}

\* the decoded coordinates designate no generated script
Candidates == {k \in 1..Len(subgroups_skeletons \o wholegroup_skeletons) :
                  (subgroups_skeletons \o wholegroup_skeletons)[k] = script_coords.name}
OutOfRange(i, n) == i < -n \/ i >= n
\* the candidate the skeleton coordinate designates, counted from the start when
\* it is >= 0 and from the end when it is negative
ChosenCandidate ==
    CHOOSE k \in Candidates :
        IF script_coords.skeleton >= 0
        THEN Cardinality({c \in Candidates : c < k}) = script_coords.skeleton
        ELSE Cardinality({c \in Candidates : c > k}) = -script_coords.skeleton - 1
ScriptNotThere ==
    \/ Candidates = {}
    \/ OutOfRange(script_coords.skeleton, Cardinality(Candidates))
    \/ OutOfRange(script_coords.script, Len(generated_scripts[ChosenCandidate]))

\* C10: generateSimulations raises ScriptNotFoundError with the decoded
\* coordinates when no skeleton has the decoded name or an index is out of
\* range; then no script is executed, no job is registered, no counter changes
\* and the run goes no further.
C10_ScriptNotFoundIsFatal ==
    /\ [](pc = "waitstart" => ~ScriptNotThere)
    /\ []((pc = "error" /\ error.type = "ScriptNotFoundError")
          => /\ ScriptNotThere
             /\ error.script_coords = parseScriptToLaunch(recipe.launch)
             /\ remote_executed = <<>>
             /\ jobs_ids = <<>>
             /\ jobs = <<>>
             /\ Len(extracted) = Rounds + 1
             /\ run_end_count = 0)
    /\ [][/\ (pc = "generate" /\ pc' = "error")
             => /\ error'.type = "ScriptNotFoundError"
                /\ failures_counter' = failures_counter
                /\ corruptions_counter' = corruptions_counter
                /\ known' = known
          /\ pc = "error" => pc' = "error"]_vars

C10_Witness ==
    /\ pc = "error"
    /\ error.type = "ScriptNotFoundError"
    /\ error.script_coords = [name |-> <<"a">>, skeleton |-> -1, script |-> 1]
    /\ Rounds = 1
    /\ failures_counter = 1

\* the batch carried by the 'addition-start' triggered by the last step
HandedBatch ==
    published[CHOOSE i \in PublishedNamed("addition-start") : TRUE].args[1]

\* the local directories the simulations of the finished rounds were bound to
DirsOfFinishedRounds == 1..TmpDirsMade(Len(outcomes))

\* C11: a simulation whose remote folder is missing does not stop the download:
\* downloadSimulations triggers one 'download-progress' per simulation, raises
\* nothing, and hands the Manager one entry per simulation of the unknown list,
\* in the same order, each bound to a local directory of its own that no
\* earlier entry or round was bound to.
C11_MissingRemoteFolderIsTolerated ==
    [][pc = "download"
       => /\ pc' = "delete"
          /\ error' = NoError
          /\ Cardinality(PublishedNamed("download-progress")') = Len(unknown_simulations)
          /\ Cardinality(PublishedNamed("addition-start")') = 1
          /\ Len(HandedBatch') = Len(unknown_simulations)
          /\ \A k \in 1..Len(HandedBatch') :
                /\ HandedBatch'[k].simulation = unknown_simulations[k]
                /\ HandedBatch'[k].folder \notin DirsOfFinishedRounds
                /\ \A j \in 1..(k - 1) : HandedBatch'[j].folder /= HandedBatch'[k].folder]_vars

C11_Witness ==
    /\ pc = "delete"
    /\ Rounds = 2
    /\ Len(HandedBatch) = 2
    /\ HandedBatch[1].empty
    /\ ~HandedBatch[2].empty
    /\ HandedBatch[1].folder /= HandedBatch[2].folder

\* ---------------------------------------------- claims on the Simulation

\* the mappings parseString reads on the Simulation object o
Mappings(o) ==
    [setting |-> Flatten(settings(o.raw_settings)),
     globalsetting |-> Pairs(o.raw_globalsettings, FALSE)]

\* the settings of the folder of o, as (category, name), and the texts each may
\* start from: its default and the values the user gives it
GlobalNodes(o) ==
    {[category |-> globalsetting_category, name |-> o.folder.globalsettings[k].name] :
        k \in 1..Len(o.folder.globalsettings)}
SettingNodes(o) ==
    UNION {{[category |-> setting_category, name |-> o.folder.settings[d].settings[k].name] :
               k \in 1..Len(o.folder.settings[d].settings)} :
           d \in 1..Len(o.folder.settings)}
Nodes(o) == GlobalNodes(o) \cup SettingNodes(o)

StartValues(o, node) ==
    IF node.category = globalsetting_category
    THEN {o.folder.globalsettings[k].default :
             k \in {i \in 1..Len(o.folder.globalsettings) :
                       o.folder.globalsettings[i].name = node.name}}
         \cup {o.user_settings.globals[k].value :
                  k \in {i \in 1..Len(o.user_settings.globals) :
                            o.user_settings.globals[i].name = node.name}}
    ELSE UNION {{o.folder.settings[d].settings[k].default :
                    k \in {i \in 1..Len(o.folder.settings[d].settings) :
                              o.folder.settings[d].settings[i].name = node.name}} :
                d \in 1..Len(o.folder.settings)}
         \cup UNION {{o.user_settings.settings[d].settings[k].value :
                         k \in {i \in 1..Len(o.user_settings.settings[d].settings) :
                                   o.user_settings.settings[d].settings[i].name = node.name}} :
                     d \in 1..Len(o.user_settings.settings)}

\* the tags written in a text
TagsIn(text) ==
    {[category |-> TagAt(text, i).category, name |-> TagAt(text, i).name] :
        i \in {k \in 1..Len(text) : TagAt(text, k).found}}

\* the settings the values of `node` refer to
RefersTo(o, node) ==
    UNION {TagsIn(value.text) : value \in {v \in StartValues(o, node) : v.type = "str"}}
    \cap Nodes(o)

\* the settings reached from `from` by at most n references
RECURSIVE Reached(_, _, _)
Reached(o, from, n) ==
    IF n = 0 THEN {}
    ELSE LET near == UNION {RefersTo(o, node) : node \in from}
         IN  near \cup Reached(o, near, n - 1)

\* the settings that are on a cycle of references
OnCycle(o) == {node \in Nodes(o) : node \in Reached(o, {node}, Cardinality(Nodes(o)))}

\* C12: on a simulation whose settings contain a cycle of references (a setting
\* that refers to itself, or a cycle through values that mix tags and text),
\* every call that resolves tags returns without raising, after a number of
\* recursive parseString calls at most the number of settings on a cycle.
C12_CyclesTerminate ==
    (called.op /= "none" /\ OnCycle(simulation) /= {})
    => /\ called.err = "none"
       /\ called.steps <= Cardinality(OnCycle(simulation))

\* the tags of a text that name a key of `mappings`
ResolvableTags(text, mappings) ==
    {tag \in TagsIn(text) : HasKey(Category(mappings, tag.category), tag.name)}

\* C13: parseString called on a string none of whose tags names a setting of the
\* current mappings returns that string.
C13_StableStringIsReturned ==
    (/\ called.op = "parseString"
     /\ called.err = "none"
     /\ called.arg.type = "str"
     /\ ResolvableTags(called.arg.text, Mappings(simulation)) = {})
    => called.ret = called.arg

C13_Witness ==
    /\ called.op = "parseString"
    /\ called.err = "none"
    /\ called.arg = StrValue(SettingTag(<<"e">>) \o SettingTag(<<"q">>))
    /\ called.ret = called.arg
    /\ simulation.raw_settings /= <<>>
    /\ simulation.parser_recursion_stack = {}

\* whether text is exactly the tag {category:name}, for some name
IsWholeTag(text, category) ==
    LET name == SubSeq(text, Len(category) + 3, Len(text) - 1)
    IN  /\ name /= <<>>
        /\ "}" \notin Range(name)
        /\ text = <<"{">> \o category \o <<":">> \o name \o <<"}">>

WholeTagName(text, category) == SubSeq(text, Len(category) + 3, Len(text) - 1)

\* the objects the Simulation object o holds
HeldIds(o) ==
    IdsOf(o.raw_globalsettings) \cup UNION {IdsOf(o.raw_settings[k]) : k \in 1..Len(o.raw_settings)}

\* ret is a copy of stored: same type and content, and another object when
\* stored is a list
IsCopyOf(ret, stored, o) ==
    /\ ret.type = stored.type
    /\ ret.text = stored.text
    /\ ret.num = stored.num
    /\ stored.type = "list" => ret.id \notin HeldIds(o)

\* what parseString must return for a string that is exactly one tag of `category`
WholeTagRule(category) ==
    IsWholeTag(called.arg.text, category)
    => LET name == WholeTagName(called.arg.text, category)
           mapping == Category(Mappings(simulation), category)
       IN  IF HasKey(mapping, name)
           THEN IsCopyOf(called.ret, GetKey(mapping, name), simulation)
           ELSE called.ret = called.arg

\* C14: parseString returns a value that is not a str unchanged; for a string
\* that is exactly one tag it returns a copy of the referenced value, of the same
\* type and not the stored object itself, or the string unchanged when the name
\* is not in the mapping.
C14_WholeTagGivesTypedCopy ==
    (called.op = "parseString" /\ called.err = "none")
    => IF called.arg.type /= "str" THEN called.ret = called.arg
       ELSE WholeTagRule(setting_category) /\ WholeTagRule(globalsetting_category)

C14_Witness ==
    /\ called.op = "parseString"
    /\ called.err = "none"
    /\ called.arg = StrValue(GlobalTag(<<"l">>))
    /\ called.ret.type = "list"
    /\ called.ret.num = 2
    /\ called.ret.id \notin {1, 2}

\* the result of the chain of passes that starts from `text`, `seen` being the
\* strings of this chain; <<>> when it is longer than n passes
RECURSIVE ChainResult(_, _, _, _)
ChainResult(text, seen, mappings, n) ==
    IF n = 0 THEN <<>>
    ELSE IF \E category \in {setting_category, globalsetting_category} :
                 IsWholeTag(text, category)
    THEN LET category == CHOOSE c \in {setting_category, globalsetting_category} :
                             IsWholeTag(text, c)
             name == WholeTagName(text, category)
         IN  IF HasKey(Category(mappings, category), name)
             THEN <<GetKey(Category(mappings, category), name)>>
             ELSE <<StrValue(text)>>
    ELSE LET parsed == Substitute(text, 1, mappings)
         IN  IF parsed \notin (seen \cup {text})
             THEN ChainResult(parsed, seen \cup {text}, mappings, n - 1)
             ELSE <<StrValue(parsed)>>

\* C15: for a string that is not exactly one tag, parseString returns the result
\* of the substitution pass (known tags replaced by the text of their value,
\* unknown tags and the text between tags kept), repeated on its own output as
\* long as the output differs from every string seen earlier in the same chain.
C15_PassRepeatedWithinTheChain ==
    (/\ called.op = "parseString"
     /\ called.err = "none"
     /\ called.arg.type = "str"
     /\ OnCycle(simulation) = {})
    => LET expected == ChainResult(called.arg.text, {}, Mappings(simulation),
                                   RecursionLimit + 1)
       IN  /\ expected /= <<>>
           /\ called.ret.type = expected[1].type
           /\ called.ret.text = expected[1].text
           /\ called.ret.num = expected[1].num

\* the user value-sets supplied for declaration d, as positions in the user settings
SuppliedFor(o, d) ==
    {k \in 1..Len(o.user_settings.settings) :
        o.user_settings.settings[k].set = o.folder.settings[d].set}

\* the n-th value-set supplied for declaration d
NthSupplied(o, d, n) ==
    o.user_settings.settings[
        CHOOSE k \in SuppliedFor(o, d) :
            Cardinality({j \in SuppliedFor(o, d) : j < k}) = n - 1].settings

\* the number of instances declaration d must yield
InstancesOf(o, d) ==
    IF SuppliedFor(o, d) /= {} THEN Cardinality(SuppliedFor(o, d))
    ELSE IF o.folder.settings[d].required THEN 1
    ELSE 0

\* the number of instances the declarations before d must yield
RECURSIVE InstancesBefore(_, _)
InstancesBefore(o, d) ==
    IF d = 1 THEN 0 ELSE InstancesOf(o, d - 1) + InstancesBefore(o, d - 1)

NamesOf(members) == [k \in 1..Len(members) |-> members[k].name]

\* the settings have been asked for on the Simulation object
SettingsAsked == called.op \in {"settings", "reduced_settings", "command_line"}

\* C16: once the settings are generated, declaration d has Len(value-sets of d)
\* instances when the user supplies value-sets for it, one when it supplies none
\* and d is required, none otherwise; the instances of a declaration follow
\* those of the declarations before it, and its n-th instance is the one made
\* for the n-th value-set supplied.
C16_ExpansionCountAndOrder ==
    SettingsAsked
    => LET o == simulation
           total == InstancesBefore(o, Len(o.folder.settings) + 1)
       IN  /\ Len(o.expanded) = total
           /\ Len(o.raw_settings) = total
           /\ \A d \in 1..Len(o.folder.settings) : \A n \in 1..InstancesOf(o, d) :
                 LET made == o.expanded[InstancesBefore(o, d) + n]
                 IN  /\ NamesOf(made) = NamesOf(o.folder.settings[d].settings)
                     /\ NamesOf(o.raw_settings[InstancesBefore(o, d) + n]) = NamesOf(made)
                     /\ SuppliedFor(o, d) /= {}
                        => \A k \in 1..Len(made) :
                              HasKey(NthSupplied(o, d, n), made[k].name)
                              => made[k].value = GetKey(NthSupplied(o, d, n), made[k].name)

C16_Witness ==
    /\ SettingsAsked
    /\ called.err = "none"
    /\ simulation.user_settings = TwoValuesSets
    /\ Len(simulation.raw_settings) = 3
    /\ NamesOf(simulation.raw_settings[2]) = << <<"a">>, <<"b">> >>
    /\ simulation.raw_settings[2][2].value = IntValue(9)
    /\ NamesOf(simulation.raw_settings[3]) = << <<"x">>, <<"y">>, <<"z">> >>

\* the type and the content of a value
ContentOf(value) == [type |-> value.type, text |-> value.text, num |-> value.num]

ContentsOf(members) ==
    [k \in 1..Len(members) |->
        [name |-> members[k].name, value |-> ContentOf(members[k].value)]]

\* the resolved settings of o
Resolved(o) ==
    [globalsettings |-> ContentsOf(o.raw_globalsettings),
     settings |-> [k \in 1..Len(o.raw_settings) |-> ContentsOf(o.raw_settings[k])]]

\* the Simulation object made from the configuration of o, once its global
\* settings and then its settings have been read
GlobalSettingsReadFirst(o) ==
    reduced_settings(
        reduced_globalsettings(NewSimulation(o.folder, o.user_settings), 0).sim, 0).sim

\* C18: once the global settings and the settings of a simulation are both
\* generated, they are the ones that reading the global settings first gives
\* for the same folder and user settings, whichever view was read first and
\* whatever parseString calls were made.
C18_ResolvedSettingsAreDeterministic ==
    (/\ called.err = "none"
     /\ simulation.raw_globalsettings /= <<>>
     /\ simulation.raw_settings /= <<>>
     /\ OnCycle(simulation) = {})
    => Resolved(simulation) = Resolved(GlobalSettingsReadFirst(simulation))

\* the events of a close() that went through
ClosePublished == published = <<Event("close-start", <<>>), Event("close-end", <<>>)>>

\* C19: close() never raises, whether the remote folder was opened or not and
\* whether close() was just called or not; after it the Maker holds no remote
\* folder instance, and RemoteFolder.close() has been called once for each
\* RemoteFolder that was opened.
C19_CloseIsSafeAndIdempotent ==
    /\ [](/\ error.type /= "AttributeError"
          /\ remote_opened = remote_closed + (IF remote_open THEN 1 ELSE 0)
          /\ closed_in_a_row > 0 => (ClosePublished /\ ~remote_open))
    /\ [][closed_in_a_row' > closed_in_a_row
          => /\ pc' = pc
             /\ error' = error
             /\ remote_closed' = remote_closed + (IF remote_open THEN 1 ELSE 0)
             /\ remote_opened' = remote_opened
             /\ known' = known]_vars

C19_Witness ==
    /\ pc = "done"
    /\ closed_in_a_row = 2
    /\ remote_opened = 1
    /\ remote_closed = 1
    /\ ~remote_open
    /\ ClosePublished

\* close() on a Maker that never opened its remote folder
C19_NeverOpenedWitness ==
    /\ pc = "idle"
    /\ closed_in_a_row = 1
    /\ remote_opened = 0
    /\ remote_closed = 0

\* ------------------------------------------------ claims on the events

\* the functions held for an event, in the order of their names' first subscription
HeldFor(collection, event) ==
    [k \in 1..Len(collection[event]) |-> collection[event][k].value]

C20_UnknownEventWitness ==
    /\ listened.op = "_triggerEvent"
    /\ listened.event = "run-finished"
    /\ listened.err = "EventUnknownError"
    /\ Held(events_callbacks, EventNames) = 2

\* ----------------------------------- claims on the decoding of launch options

\* the fields of s between its ':', all of them
RECURSIVE Fields(_)
Fields(s) ==
    IF Colons(s) = {} THEN <<s>>
    ELSE LET k == SetMin(Colons(s))
         IN  <<SubSeq(s, 1, k - 1)>> \o Fields(SubSeq(s, k + 1, Len(s)))

\* the number of fields at the end of s, two at most, that are all integers
TrailingIntegers(s) ==
    SetMax({n \in 0..2 : /\ n <= Len(Fields(s))
                         /\ \A k \in 1..n : IsInt(Fields(s)[Len(Fields(s)) - n + k])})

\* s without its last n fields and the ':' before them
WithoutLastFields(s, n) ==
    LET length == Len(s) - n
                  - (IF n >= 1 THEN Len(Fields(s)[Len(Fields(s))]) ELSE 0)
                  - (IF n >= 2 THEN Len(Fields(s)[Len(Fields(s)) - 1]) ELSE 0)
    IN  SubSeq(s, 1, length)

\* whether one of the three pieces at most of s is not an integer
HasNamePiece(s) ==
    /\ Len(Fields(s)) > TrailingIntegers(s)
    /\ ~IsInt(WithoutLastFields(s, TrailingIntegers(s)))

IntegerOf(field) == intOrNone(field)[1]

\* C21: of a launch option one of whose three pieces at most (split from the
\* right on ':') is not an integer, the name is the option without its trailing
\* integer fields, two at most (so the name can contain ':'), skeleton and script
\* are these integers in order, and a missing one is -1
C21_LaunchDecoding ==
    (launch_decoded.done /\ HasNamePiece(launch_given))
    => LET fields == Fields(launch_given)
           n == TrailingIntegers(launch_given)
       IN  /\ launch_decoded.err = "none"
           /\ launch_decoded.ret.name = WithoutLastFields(launch_given, n)
           /\ launch_decoded.ret.skeleton =
                  (IF n >= 1 THEN IntegerOf(fields[Len(fields) - n + 1]) ELSE -1)
           /\ launch_decoded.ret.script =
                  (IF n = 2 THEN IntegerOf(fields[Len(fields)]) ELSE -1)
           /\ launch_given = BuildLaunch
              => launch_decoded.ret = [name |-> <<"b", "u", "i", "l", "d">>,
                                       skeleton |-> 2, script |-> -1]

C21_Witness ==
    /\ launch_given = ColonsLaunch
    /\ launch_decoded.done
    /\ launch_decoded.ret = [name |-> SubSeq(ColonsLaunch, 1, 22), skeleton |-> 1,
                             script |-> -1]

\* --------------------------------------------------- claims on a second run

\* the number of finished rounds of this run in which a job failed
RoundsFailed == Cardinality({r \in 1..Len(outcomes) : outcomes[r].failed})

\* the number of finished rounds of this run in which a simulation was rejected
RoundsRejected == Cardinality({r \in 1..Len(outcomes) : outcomes[r].rejected})

\* the previous run() ended because a counter exceeded its threshold
PreviousRunExceeded == previous_run = "exceeded"

\* C22: every run() starts with both counters at 0, also when the run() before
\* it ended with a counter above its threshold, and wherever the loop of run()
\* is tested the counters count the rounds of this run only; so the first test
\* of the loop of a second run passes
C22_CountersResetAtEveryRun ==
    /\ [](pc \in {"loop", "runend", "done"}
          => /\ failures_counter = RoundsFailed
             /\ corruptions_counter = RoundsRejected)
    /\ [][(published' = <<Event("run-start", <<>>)>> /\ pc' = "loop")
          => /\ corruptions_counter' = 0
             /\ failures_counter' = 0
             /\ outcomes' = <<>>
             /\ LoopCondition(corruptions_counter, failures_counter)']_vars

C22_Witness ==
    /\ PreviousRunExceeded
    /\ pc = "done"
    /\ Len(outcomes) >= 1
    /\ failures_counter = 0
    /\ corruptions_counter = 0

\* --------------------------------------- claims on the global settings by name

\* the names of the declared global settings
DeclaredGlobals(o) ==
    {o.folder.globalsettings[k].name : k \in 1..Len(o.folder.globalsettings)}

\* what reading the global settings gives
StoredGlobals(o) == reduced_globalsettings(o, 0).ret

\* C23: simulation[key] and simulation[key] = value raise KeyError when key is
\* not the name of a declared global setting, and a write that raises leaves
\* the global settings as they were; with the name of a declared global
\* setting both return
C23_UnknownNameIsKeyError ==
    /\ [](called.op \in {"getitem", "setitem"}
          => called.err = (IF called.arg.key \in DeclaredGlobals(simulation)
                           THEN "none" ELSE "KeyError"))
    /\ [][(called'.op = "setitem" /\ called'.err /= "none")
          => StoredGlobals(simulation') = StoredGlobals(simulation)]_vars

\* the place of the global setting `key` in the list of the global settings
PlaceOf(o, key) ==
    CHOOSE k \in 1..Len(o.folder.globalsettings) : o.folder.globalsettings[k].name = key

\* C30: simulation[key] = value on a declared name stores the value given, not
\* resolved; when the global settings were generated before, nothing else
\* changes: neither another global setting nor a setting, and no list is
\* generated again; simulation[key] returns the value stored, and a call other
\* than a write leaves the generated global settings as they are
C30_WriteStoresTheValueAsIs ==
    /\ [][(called'.op = "setitem" /\ called'.err = "none")
          => LET k == PlaceOf(simulation, called'.arg.key)
             IN  /\ simulation'.raw_globalsettings[k].value = called'.arg.value
                 /\ simulation.raw_globalsettings /= <<>>
                    => simulation' = [simulation EXCEPT
                                         !.raw_globalsettings[k].value = called'.arg.value]]_vars
    /\ [][(called'.op = "getitem" /\ called'.err = "none")
          => called'.ret =
                simulation'.raw_globalsettings[PlaceOf(simulation, called'.arg.key)].value]_vars
    /\ [][(called'.op /= "setitem" /\ simulation.raw_globalsettings /= <<>>)
          => simulation'.raw_globalsettings = simulation.raw_globalsettings]_vars

\* h, declared with 5, is read after a text with a tag was written to it
C30_Witness ==
    /\ simulation.folder = PlainFolder
    /\ called.op = "getitem"
    /\ called.arg.key = <<"h">>
    /\ called.ret = StrValue(<<"n", "=">> \o GlobalTag(<<"h">>))
    /\ simulation.raw_settings /= <<>>

\* ------------------------------------------------ claims on the order of events

\* the pairs of events of which the second can be the next event after the first
\* in a run that returns
Follows ==
    { <<"run-start", "extract-start">>,
      <<"extract-start", "extract-progress">>, <<"extract-start", "extract-end">>,
      <<"extract-progress", "extract-progress">>, <<"extract-progress", "extract-end">>,
      <<"extract-end", "generate-start">>, <<"extract-end", "run-end">>,
      <<"generate-start", "remote-open-start">>, <<"generate-start", "generate-end">>,
      <<"remote-open-start", "remote-open-end">>, <<"remote-open-end", "generate-end">>,
      <<"generate-end", "wait-start">>,
      <<"wait-start", "wait-progress">>,
      <<"wait-progress", "wait-progress">>, <<"wait-progress", "wait-end">>,
      <<"wait-end", "download-start">>,
      <<"download-start", "download-progress">>,
      <<"download-progress", "download-progress">>, <<"download-progress", "download-end">>,
      <<"download-end", "addition-start">>,
      <<"addition-start", "addition-progress">>, <<"addition-start", "addition-end">>,
      <<"addition-progress", "addition-progress">>, <<"addition-progress", "addition-end">>,
      <<"addition-end", "delete-scripts">>,
      <<"delete-scripts", "extract-start">>, <<"delete-scripts", "run-end">> }

\* each event of the list can follow the one before it
InOrder(events) ==
    \A i \in 1..(Len(events) - 1) : <<events[i].name, events[i + 1].name>> \in Follows

\* the number of events of a name in a list
CountOf(events, name) == Cardinality({i \in 1..Len(events) : events[i].name = name})

\* the last event triggered: a step that triggers nothing is a poll that read
\* unchanged states (after a 'wait-progress') or the exit of the loop of run()
\* (after 'delete-scripts'), as C24 checks at each such step
LastEventName ==
    IF published /= <<>> THEN published[Len(published)].name
    ELSE IF pc = "wait" THEN "wait-progress"
    ELSE "delete-scripts"

\* C24: in a run() that does not raise, 'run-start' is the first event; every
\* event is followed by an event that Follows allows (each phase ends before
\* the next one starts, 'wait-start' is followed by at least one
\* 'wait-progress', 'remote-open-start' and 'remote-open-end' come together
\* inside the generate phase and only when the remote folder was not open);
\* 'generate-start' follows 'extract-end' iff the unknown list is not empty,
\* 'run-end' otherwise; the download phase has one 'download-progress' per
\* unknown simulation; 'run-end' is the last event
C24_EventsFollowTheFixedOrder ==
    [][(pc' /= "error" /\ closed_in_a_row' = 0)
       => /\ pc /= "done"
          /\ InOrder(published')
          /\ pc = "idle" => published' = <<Event("run-start", <<>>)>>
          /\ (pc /= "idle" /\ published' /= <<>>)
             => <<LastEventName, published'[1].name>> \in Follows
          /\ published' = <<>>
             => \/ pc' = "wait" /\ LastEventName = "wait-progress"
                \/ pc' = "runend" /\ LastEventName = "delete-scripts"
          /\ (pc /= "idle" /\ published' /= <<>> /\ LastEventName = "extract-end")
             => (published'[1].name = "generate-start") = (unknown_simulations /= <<>>)
          /\ CountOf(published', "download-start") = 1
             => CountOf(published', "download-progress") = Len(unknown_simulations)
          /\ CountOf(published', "remote-open-start") > 0
             => (~remote_open /\ published'[1].name = "generate-start")
          /\ pc' = "done" => published'[Len(published')].name = "run-end"]_vars

\* a run of two rounds returned
C24_Witness ==
    /\ pc = "done"
    /\ closed_in_a_row = 0
    /\ Len(outcomes) = 2
    /\ remote_opened = 1
    /\ published = <<Event("run-end", <<returned>>)>>

\* --------------------------------------------- claims on the progress of a wait

\* the step is the first poll of a wait phase
FirstPoll == pc = "wait" /\ published = <<Event("wait-start", <<jobs_ids>>)>>

\* C25: a poll triggers 'wait-progress' iff it is the first poll of the phase
\* or the partition it read differs from the partition read by the poll
\* before; the event carries the partition read; the poll that ends the phase
\* triggers one, that carries the partition in which every job is terminal
C25_ProgressOnChangedPartitionOnly ==
    [][pc = "wait"
       => /\ ProgressPublished'
             => /\ FirstPoll \/ PublishedPartition' /= JobsByState(jobs)
                /\ pc' = "wait" => PublishedPartition' = JobsByState(jobs')
                /\ CountOf(published', "wait-progress") = 1
          /\ ~ProgressPublished'
             => /\ ~FirstPoll
                /\ published' = <<>>
                /\ pc' = "wait"
                /\ JobsByState(jobs') = JobsByState(jobs)
          /\ pc' /= "wait"
             => /\ ProgressPublished'
                /\ published'[Len(published')].name = "wait-end"
                /\ Terminal(PublishedPartition') = Range(jobs_ids)
                /\ PublishedPartition'.waiting \cup PublishedPartition'.running = {}]_vars

\* the first poll read every job waiting, as registered: it triggered the event
C25_Witness ==
    /\ pc = "wait"
    /\ ProgressPublished
    /\ Len(jobs_ids) = 2
    /\ PublishedPartition.waiting = Range(jobs_ids)

\* a later poll read the same partition and triggered nothing
C25_UnchangedWitness ==
    /\ pc = "wait"
    /\ published = <<>>
    /\ JobsByState(jobs).running /= {}

\* ------------------------------------- claims on the remote scripts directories

\* C26: the round that ends deletes the remote directory that its own
\* generateSimulations sent and named in recipe['basedir'] (a directory that did
\* not exist before that round), after the simulations were handed to the
\* Manager and before the next extraction; whenever the loop is tested, and
\* when run() has returned, no remote directory sent by run() remains
C26_RoundDeletesItsOwnRemoteDirectory ==
    /\ [](pc \in {"loop", "runend", "done"} => remote_dirs = {})
    /\ [][/\ (pc = "generate" /\ pc' /= "error")
             => /\ recipe'.basedir \notin remote_dirs
                /\ remote_dirs' = remote_dirs \cup {recipe'.basedir}
          /\ pc \in {"waitstart", "wait", "download"}
             => /\ recipe' = recipe
                /\ remote_dirs' = remote_dirs
          /\ pc = "delete"
             => /\ CountOf(published, "addition-end") = 1
                /\ recipe.basedir \in remote_dirs
                /\ remote_dirs' = remote_dirs \ {recipe.basedir}
                /\ pc' = "loop"
          /\ (pc' = "delete" /\ pc /= "delete") => pc = "download"]_vars

\* the second round of a run ended: its directory, not the one of the first
\* round, was named by the recipe, and nothing remains
C26_Witness ==
    /\ pc = "done"
    /\ Len(outcomes) = 2
    /\ recipe.basedir = 2
    /\ remote_dirs = {}

\* ------------------------------------------- claims on the remote connection

\* the events of the list are the two events of an opening, in this order and
\* next to each other, or the list has none of them
OpeningEvents(events) ==
    {i \in 1..Len(events) : events[i].name \in {"remote-open-start", "remote-open-end"}}

OpenedInside(events) ==
    \E i \in 1..(Len(events) - 1) :
        /\ OpeningEvents(events) = {i, i + 1}
        /\ events[i].name = "remote-open-start"
        /\ events[i + 1].name = "remote-open-end"

\* C27: RemoteFolder.open() is called only by the first generateSimulations
\* that finds no open instance, between 'remote-open-start' and
\* 'remote-open-end'; while the instance is open every later round uses it and
\* triggers neither event, so open() is called at most once more than close();
\* the polls, the downloads and the deletion find the instance open; a run
\* whose first extraction is empty ends with no call of open(), no script
\* generated or executed, no job registered and no remote directory touched
C27_RemoteFolderOpenedLazilyAndOnce ==
    /\ [](/\ remote_opened - remote_closed = (IF remote_open THEN 1 ELSE 0)
          /\ pc \in {"waitstart", "wait", "download", "delete"} => remote_open)
    /\ [][/\ (pc = "generate" /\ ~remote_open)
             => /\ remote_opened' = remote_opened + 1
                /\ remote_open'
                /\ OpenedInside(published')
          /\ (pc /= "generate" \/ remote_open)
             => /\ remote_opened' = remote_opened
                /\ OpeningEvents(published') = {}
                /\ remote_open' => remote_open
          /\ (pc = "loop" /\ extracted = <<>> /\ pc' = "runend")
             => /\ unknown_simulations' = <<>>
                /\ remote_opened' = 0
                /\ ~remote_open'
                /\ UNCHANGED <<generated_scripts, remote_executed, jobs, jobs_ids,
                               remote_dirs, recipe>>
          /\ (pc = "runend" /\ extracted = <<<<>>>> /\ pc' = "done")
             => /\ remote_opened' = 0
                /\ ~remote_open'
                /\ UNCHANGED <<generated_scripts, remote_executed, jobs, jobs_ids,
                               remote_dirs, recipe>>]_vars

\* the second round of a run sent its scripts through the instance opened by
\* the first round
C27_Witness ==
    /\ pc = "waitstart"
    /\ Len(outcomes) = 1
    /\ remote_opened = 1
    /\ remote_open
    /\ OpeningEvents(published) = {}

\* a run whose first extraction was empty returned
C27_EmptyRunWitness ==
    /\ pc = "done"
    /\ extracted = <<<<>>>>
    /\ remote_opened = 0
    /\ generated_scripts = <<>>
    /\ remote_executed = <<>>
    /\ jobs = <<>>
    /\ remote_dirs = {}

\* ------------------------------------------ claims on the selection of the script

\* the positions (from 0) of the skeletons that have the name, in the
\* subgroups skeletons followed by the wholegroup skeletons
NamedSkeletons(name) ==
    {p \in 0..(Len(subgroups_skeletons \o wholegroup_skeletons) - 1) :
        (subgroups_skeletons \o wholegroup_skeletons)[p + 1] = name}

\* the members of a set of numbers that an index designates: the one with
\* `index` members below it, or for a negative index the one with -index - 1
\* members above it
Designated(members, index) ==
    {p \in members :
        IF index >= 0 THEN Cardinality({q \in members : q < p}) = index
        ELSE Cardinality({q \in members : q > p}) = -index - 1}

\* the scripts that the coordinates designate among the generated ones
DesignatedScripts(generated, coords) ==
    {generated[p + 1][j + 1] :
        <<p, j>> \in {<<p, j>> \in Designated(NamedSkeletons(coords.name), coords.skeleton) \X (0..MaxScripts) :
                        j \in Designated(0..(Len(generated[p + 1]) - 1), coords.script)}}

\* C28: generateSimulations executes remotely exactly the script designated by
\* the coordinates: the skeleton coordinate counts among the positions, in the
\* subgroups skeletons followed by the wholegroup skeletons, of the skeletons
\* that have the decoded name, the script coordinate among the scripts
\* generated for that position, a negative coordinate counting from the end
\* (-1 is the last); when the coordinates designate no script nothing is
\* executed
C28_ExecutedScriptIsTheSelectedOne ==
    /\ pc = "waitstart"
       => /\ Len(remote_executed) = 1
          /\ DesignatedScripts(generated_scripts, script_coords) = {remote_executed[1]}
    /\ (pc = "error" /\ error.type = "ScriptNotFoundError")
       => /\ remote_executed = <<>>
          /\ DesignatedScripts(generated_scripts, script_coords) = {}

\* 'a:1:-2' executed the first of the two scripts of the wholegroup skeleton,
\* the second skeleton named 'a'
C28_Witness ==
    /\ pc = "waitstart"
    /\ script_coords = [name |-> <<"a">>, skeleton |-> 1, script |-> -2]
    /\ remote_executed = <<[skeleton |-> 2, script |-> 0]>>

\* 'a' alone executed the last script of the last skeleton named 'a'
C28_DefaultsWitness ==
    /\ pc = "waitstart"
    /\ recipe.launch = <<"a">>
    /\ script_coords = [name |-> <<"a">>, skeleton |-> -1, script |-> -1]
    /\ remote_executed = <<[skeleton |-> 2, script |-> 1]>>

\* -------------------------------- claims on the generation of the global settings

\* the raw list: for each declared name, in the order of the declarations, the
\* value of the user if the user gave the name, else the default
RawGlobals(o) ==
    [k \in 1..Len(o.folder.globalsettings) |->
        LET given == {i \in 1..Len(o.user_settings.globals) :
                        o.user_settings.globals[i].name = o.folder.globalsettings[k].name}
        IN  [name |-> o.folder.globalsettings[k].name,
             value |-> IF given = {} THEN o.folder.globalsettings[k].default
                       ELSE o.user_settings.globals[SetMin(given)].value]]

\* the object once the raw list is built and its first k entries are resolved,
\* one after the other
RECURSIVE ResolvedThrough(_, _)
ResolvedThrough(o, k) ==
    IF k = 0 THEN Return([o EXCEPT !.raw_globalsettings = RawGlobals(o)], <<>>)
    ELSE Then(ResolvedThrough(o, k - 1), LAMBDA before :
         Then(parseString(before.sim, before.sim.raw_globalsettings[k].value), LAMBDA got :
         Return([got.sim EXCEPT !.raw_globalsettings[k].value = got.ret], <<>>)))

\* the global settings of the simulation were generated by the last step, that
\* read them
GlobalsGenerated ==
    /\ simulation.raw_globalsettings = <<>>
    /\ called'.op \in {"reduced_globalsettings", "getitem"}
    /\ called'.err = "none"

\* C29: generateGlobalSettings leaves each entry k resolved by parseString on
\* the object in which the raw list is complete, the entries before k hold
\* their final values, and the entry k and those after it their raw values
C29_GlobalsResolvedInOrderOverTheFullList ==
    [][GlobalsGenerated
       => LET n == Len(simulation.folder.globalsettings)
          IN  /\ ResolvedThrough(simulation, n).err = "none"
              /\ simulation'.raw_globalsettings
                    = ResolvedThrough(simulation, n).sim.raw_globalsettings
              /\ \A k \in 1..n :
                    LET seen == ResolvedThrough(simulation, k - 1).sim.raw_globalsettings
                    IN  /\ Len(seen) = n
                        /\ \A j \in 1..n :
                              seen[j] = IF j < k THEN simulation'.raw_globalsettings[j]
                                        ELSE RawGlobals(simulation)[j]]_vars

\* g took the raw value of k, declared after it; m, declared after k, took the
\* resolved value of k, in which h is the value of the user
C29_Witness ==
    /\ simulation.folder = ChainFolder
    /\ called.op = "reduced_globalsettings"
    /\ called.err = "none"
    /\ simulation.raw_globalsettings
          = << [name |-> <<"g">>, value |-> StrValue(<<"n", "=">> \o GlobalTag(<<"h">>))],
               [name |-> <<"k">>, value |-> StrValue(<<"n", "=", "7">>)],
               [name |-> <<"m">>, value |-> StrValue(<<"n", "=", "7">>)],
               [name |-> <<"h">>, value |-> IntValue(7)] >>

\* ------------------------------------------- claims on the views of the settings

\* the members of an instance that are not excluded, in order
NotExcluded(members) == SelectSeq(members, LAMBDA m : ~m.exclude)

\* the members of the instances from the k-th on, one after the other
RECURSIVE MembersFrom(_, _)
MembersFrom(raw_settings, k) ==
    IF k > Len(raw_settings) THEN <<>>
    ELSE raw_settings[k] \o MembersFrom(raw_settings, k + 1)

\* a space and the rendered string of each member, one after the other
RECURSIVE SpacedStrings(_)
SpacedStrings(members) ==
    IF members = <<>> THEN <<>>
    ELSE <<" ">> \o format(Head(members).pattern, 1, Head(members).name, Head(members).value)
         \o SpacedStrings(Tail(members))

\* C31: `settings` has one entry per instance, in the order of the instances,
\* that holds exactly the members whose exclude flag is false; `command_line` is
\* the executable followed by the rendered string of every member of every
\* instance, excluded or not, instance after instance and member after member
C31_ViewFiltersCommandLineDoesNot ==
    /\ (called.op = "settings" /\ called.err = "none")
       => /\ Len(called.ret) = Len(simulation.raw_settings)
          /\ \A k \in 1..Len(called.ret) :
                /\ Len(called.ret[k]) = Len(NotExcluded(simulation.raw_settings[k]))
                /\ \A j \in 1..Len(called.ret[k]) :
                      /\ called.ret[k][j].name = NotExcluded(simulation.raw_settings[k])[j].name
                      /\ called.ret[k][j].value = NotExcluded(simulation.raw_settings[k])[j].value
    /\ (called.op = "command_line" /\ called.err = "none")
       => called.ret = simulation.folder.exec
                       \o SpacedStrings(MembersFrom(simulation.raw_settings, 1))

\* the settings of an instance with an excluded member were read: the view has
\* two of its three members
C31_Witness ==
    /\ called.op = "settings"
    /\ called.err = "none"
    /\ Len(simulation.raw_settings) = 3
    /\ Len(simulation.raw_settings[3]) = 3
    /\ simulation.raw_settings[3][3].exclude
    /\ Len(called.ret[3]) = 2

\* the command line of the same simulation was read: it has the rendered
\* string of the excluded member
C31_CommandLineWitness ==
    /\ called.op = "command_line"
    /\ called.err = "none"
    /\ Len(simulation.raw_settings) = 3
    /\ simulation.raw_settings[3][3].exclude
    /\ \E i \in 1..Len(called.ret) :
          IsPrefixAt(<<" ">> \o format(simulation.raw_settings[3][3].pattern, 1,
                                       simulation.raw_settings[3][3].name,
                                       simulation.raw_settings[3][3].value),
                     called.ret, i)

\* ----------------------------------- claims on the strings recorded by the parser

\* C32: when a call of parseString has returned, _parser_recursion_stack is
\* empty
C32_StackEmptyAfterEveryCall ==
    (called.op = "parseString" /\ called.err = "none")
    => simulation.parser_recursion_stack = {}

\* -------------------------------------------- claims on the lazy generation

\* C33: on a simulation whose folder declares no global setting, reading the
\* global settings returns the empty mapping; on a simulation whose
\* declarations yield no instance, reading the settings returns the empty list
C33_EmptyGenerationReturns ==
    /\ (called.op = "reduced_globalsettings" /\ simulation.folder.globalsettings = <<>>)
       => (called.err = "none" /\ called.ret = <<>>)
    /\ (called.op = "settings"
          /\ InstancesBefore(simulation, Len(simulation.folder.settings) + 1) = 0)
       => (called.err = "none" /\ called.ret = <<>>)

\* ------------------------------------ claims on the mapping of the setting tags

\* the places (instance, member) of the settings of a name that are not excluded
PlacesOf(raw_settings, name) ==
    UNION {{<<k, j>> : j \in {i \in 1..Len(raw_settings[k]) :
                                   /\ raw_settings[k][i].name = name
                                   /\ ~raw_settings[k][i].exclude}} :
           k \in 1..Len(raw_settings)}

\* the last of these places: the one of the latest instance
LastPlaceOf(raw_settings, name) ==
    CHOOSE p \in PlacesOf(raw_settings, name) :
        \A q \in PlacesOf(raw_settings, name) : q[1] <= p[1]

\* the names of the tags given to parseString
TagNames == { <<"x">>, <<"a">>, <<"q">>, <<"z">> }

\* an instance of the simulation has an excluded setting of that name
HasExcluded(raw_settings, name) ==
    \E k \in 1..Len(raw_settings) : \E j \in 1..Len(raw_settings[k]) :
        raw_settings[k][j].name = name /\ raw_settings[k][j].exclude

\* C34: parseString on the tag {setting:name} returns the value that the
\* latest instance with a setting of that name that is not excluded gives it;
\* when no instance has one, and so when the only settings of that name are
\* excluded, the tag is returned as it is, alone or inside a text
C34_SettingTagsReadTheFilteredView ==
    (called.op = "parseString" /\ called.err = "none")
    => /\ \A name \in TagNames :
             called.arg = StrValue(SettingTag(name))
             => IF PlacesOf(simulation.raw_settings, name) = {}
                THEN called.ret = called.arg
                ELSE LET p == LastPlaceOf(simulation.raw_settings, name)
                     IN  ContentOf(called.ret)
                            = ContentOf(simulation.raw_settings[p[1]][p[2]].value)
       /\ (called.arg = StrValue(<<"z", "=">> \o SettingTag(<<"z">>))
            /\ PlacesOf(simulation.raw_settings, <<"z">>) = {})
          => called.ret = called.arg

\* the tag of the excluded setting z was given: it was returned as it is
C34_Witness ==
    /\ called.op = "parseString"
    /\ called.err = "none"
    /\ called.arg = StrValue(SettingTag(<<"z">>))
    /\ HasExcluded(simulation.raw_settings, <<"z">>)
    /\ called.ret = called.arg

\* the tag of a, that the first instance sets to 9 and the second to 1, was
\* given: the value of the second was returned
C34_LaterInstanceWitness ==
    /\ called.op = "parseString"
    /\ called.err = "none"
    /\ called.arg = StrValue(SettingTag(<<"a">>))
    /\ simulation.raw_settings[1][1].value = IntValue(9)
    /\ simulation.raw_settings[2][1].value = IntValue(1)
    /\ called.ret = IntValue(1)

\* ------------------------------------------------ claims on the end of run()

\* the rounds of this run that are started: the finished ones and the one that
\* is going on
RoundsStarted == Len(outcomes) + (IF InRound THEN 1 ELSE 0)

\* both thresholds are natural numbers
BothThresholdsSet == max_failures >= 0 /\ max_corrupted >= 0

\* C35: with both thresholds at 0 or above, run() starts at most
\* max_failures + max_corrupted + 1 rounds, every finished round but the last
\* has raised a counter, and run() once called ends (the rounds explored being
\* limited to MaxRounds, for the thresholds that allow no more rounds than that)
C35_RunEndsWithinTheThresholds ==
    /\ [](BothThresholdsSet
          => /\ RoundsStarted <= max_failures + max_corrupted + 1
             /\ \A r \in 1..(Len(outcomes) - 1) : outcomes[r].failed \/ outcomes[r].rejected)
    /\ (pc = "loop" /\ BothThresholdsSet /\ max_failures + max_corrupted < MaxRounds)
          ~> (pc \in {"done", "error"})

\* a run with max_failures = 0 and max_corrupted = 1 returned after two rounds
C35_Witness ==
    /\ pc = "done"
    /\ max_failures = 0
    /\ max_corrupted = 1
    /\ Len(outcomes) = 2
    /\ failures_counter = 0
    /\ corruptions_counter = 2

\* --------------------------------------------- claims on the jobs that are watched

\* C36: the JobsManager holds no job outside a wait phase and exactly the jobs
\* of the round inside it, registered as waiting when the phase starts; the
\* phase ends on the poll that reads every job of the round, and no other job,
\* succeed or failed, and its result is whether none of them failed
C36_OnlyTheJobsOfTheRoundAreWatched ==
    /\ [](IF pc = "wait" THEN DOMAIN jobs = Range(jobs_ids) ELSE jobs = <<>>)
    /\ [][/\ pc = "waitstart"
             => /\ DOMAIN jobs' = Range(jobs_ids)
                /\ \A i \in DOMAIN jobs' : jobs'[i] = "waiting"
                /\ published' = <<Event("wait-start", <<jobs_ids>>)>>
          /\ (pc = "wait" /\ pc' /= "wait")
             => /\ jobs' = <<>>
                /\ PublishedPartition'.succeed \cup PublishedPartition'.failed = Range(jobs_ids)
                /\ PublishedPartition'.waiting \cup PublishedPartition'.running = {}
                /\ success' = (PublishedPartition'.failed = {})
                /\ \A i \in PublishedPartition'.failed : CanBecome(jobs[i], "failed")]_vars

\* the wait of a second round started with its jobs waiting, after a first
\* round in which a job failed
C36_Witness ==
    /\ pc = "wait"
    /\ Len(outcomes) = 1
    /\ outcomes[1].failed
    /\ Len(jobs_ids) = 2
    /\ published = <<Event("wait-start", <<jobs_ids>>)>>
    /\ \A i \in DOMAIN jobs : jobs[i] = "waiting"

\* ------------------------------------ claims on the folders that are downloaded

\* C37: in every round the download asks, for each simulation of the unknown
\* list, for the remote output folder of that simulation, and the entries of
\* the list given to run() keep the 'folder' they had: a simulation unknown
\* again in a later round is downloaded from the same remote path
C37_DownloadLeavesTheTargetsAlone ==
    /\ \A s \in Range(simulations) : folders[s] = RemoteOutput(s)
    /\ \A round \in 1..Len(received) :
          \A i \in 1..Len(received[round]) :
              received[round][i] = RemoteOutput(extracted[round][i])

\* ------------------------------------------- claims on the runs that end in error

\* C38: once run() has raised ScriptNotFoundError, the directory sent to the
\* remote folder at the start of the failing round (recipe.basedir) is deleted,
\* as after a completed round: no directory sent by the run is left
C38_ScriptNotFoundLeavesNoRemoteDirectory ==
    (pc = "error" /\ error.type = "ScriptNotFoundError") =>
        /\ recipe.basedir \notin remote_dirs
        /\ remote_dirs = {}

\* C39: parseScriptToLaunch returns coordinates for every launch option, those
\* made of integers only included, so that run() never raises from the decoding
\* and always reaches its first extractSimulations
C39_LaunchDecodingIsTotal ==
    /\ pc = "error" => error.type /= "ValueError"
    /\ pc \notin {"idle", "error"} => script_coords /= NoCoords

====
